---- MODULE Spec2Model ----
(***************************************************************************)
(* pi-mem: plain-Markdown memory extension for the pi coding agent.        *)
(*                                                                         *)
(* Text is modelled as a sequence of tokens.  A one-character token is     *)
(* that character; a longer token is a word of ordinary characters (no     *)
(* whitespace, no line terminator, none of the characters the checklist    *)
(* patterns look at).  Session identifiers and checklist lines are spelled *)
(* character by character, because the code slices and pattern-matches     *)
(* them.                                                                   *)
(***************************************************************************)
EXTENDS Integers, Sequences, FiniteSets, TLC

\* ------------------------------------------------------------------------
\* Bounds of the model
\* ------------------------------------------------------------------------
MaxItems == 2      \* longest item list handed to the codec round trip
MaxDay == 3        \* last calendar day the clock reaches
MaxCalls == 2      \* number of writing tool calls in one behaviour
MaxEvents == 3     \* number of session events and timer firings in one behaviour
MaxNow == 6        \* last tick the dashboard clock reaches
MaxTasks == 2      \* handlers of one instance suspended at an await
MaxLines == 2      \* lines after the header in a scanned session log
MaxFiles == 2      \* session logs in the directory collectSessions lists

\* ------------------------------------------------------------------------
\* State
\* ------------------------------------------------------------------------
VARIABLES
    files,          \* the files on disk: path -> content
    dirs,           \* the directories that exist
    contextFiles,   \* CONTEXT_FILES, resolved once when the module loads
    day,            \* wall-clock calendar day (index)
    sessionId,      \* ctx.sessionManager.getSessionId()
    autocommit,     \* process.env.PI_AUTOCOMMIT at module load, and whether git commits work
    calls,          \* tool calls and events handled so far (also the clock's seconds)
    last,           \* the last handler or tool call: its arguments and outcome
    sections,       \* buildMemoryContext: its local sections array at return
                    \* (empty once another call runs)
    memoryContext,  \* the handlers' local memoryContext (empty likewise)
    appended,       \* history: contents appended to MEMORY.md since its last overwrite
    allDone,        \* history: the last add/done/undo marked the last open item done
    journal,        \* history: the blocks appended to each file, in call order,
                    \* since the file was last rewritten otherwise
    cItems,         \* codec round trip: the list handed to serializeScratchpad
    cText,          \* codec round trip: the serialized content
    cParsed,        \* codec round trip: the list parseScratchpad returns
    cPc,            \* codec round trip: "start", "serialized", "parsed"
    now,            \* Date.now(), in ticks of five minutes
    inst,           \* per process instance: cachedSummary, lastRebuildTime,
                    \* rebuildTimer, the intervals set and not cleared, the
                    \* handlers suspended at an await and the last one to end,
                    \* whether the "memory-dashboard" widget is set, and whether
                    \* agent_start cleared it since the last session event
    cacheJson,      \* daily/cache.json: the persisted summary cache
    req,            \* the last getOrRebuildSummary call: its inputs and outcome
    race,           \* per process instance: its position in a file update
    logs,           \* the session logs under SESSIONS_DIR: file -> lines
    scan,           \* the last scanSession call: its file and result
    collected       \* the last collectSessions call: its result

codecVars == << cItems, cText, cParsed, cPc >>
diskVars == << files, dirs >>
envVars == << contextFiles, day, sessionId, autocommit >>
ctxVars == << sections, memoryContext >>
histVars == << appended, allDone, journal >>
bgVars == << now, inst, cacheJson, req, race, logs, scan, collected >>
vars == << files, dirs, contextFiles, day, sessionId, autocommit, calls, last,
           sections, memoryContext, appended, allDone, journal,
           cItems, cText, cParsed, cPc,
           now, inst, cacheJson, req, race, logs, scan, collected >>

\* the process instances that share one memory root
Instances == { 1, 2 }

\* a freshly loaded module: `let cachedSummary = ""`, `let lastRebuildTime = 0`,
\* `let rebuildTimer = null`, no handler suspended
InstanceLoaded ==
    [ cachedSummary |-> <<>>, lastRebuildTime |-> 0, rebuildTimer |-> FALSE,
      timerDue |-> 0, tasks |-> {}, stopped |-> FALSE, intervals |-> 0,
      ended |-> [ kind |-> "none", hadTimer |-> FALSE ],
      widget |-> FALSE, cleared |-> FALSE ]

\* nothing of the dashboard, of a second instance or of the scanner is in play
BackgroundIdle ==
    /\ now = 0
    /\ inst = [ i \in Instances |-> InstanceLoaded ]
    /\ cacheJson = [ exists |-> FALSE ]
    /\ req = [ op |-> "none" ]
    /\ race = [ i \in Instances |-> [ pc |-> "idle" ] ]
    /\ logs = << >>
    /\ scan = [ op |-> "none" ]
    /\ collected = [ op |-> "none" ]

\* ------------------------------------------------------------------------
\* String helpers (JavaScript String semantics on token sequences)
\* ------------------------------------------------------------------------
NL == "\n"
CR == "\r"

\* characters the JavaScript regex '.' does not match
LineTerminators == {NL, CR}

\* characters String.prototype.trim strips
WhiteSpace == {" ", NL, CR, "\t"}

Min(a, b) == IF a < b THEN a ELSE b

RECURSIVE Concat(_)
Concat(ss) == IF ss = <<>> THEN <<>> ELSE Head(ss) \o Concat(Tail(ss))

\* Array.prototype.join
RECURSIVE Join(_, _)
Join(ss, sep) ==
    IF ss = <<>> THEN <<>>
    ELSE IF Len(ss) = 1 THEN ss[1]
    ELSE ss[1] \o sep \o Join(Tail(ss), sep)

\* index of the first NL in s, or 0
RECURSIVE FirstNL(_, _)
FirstNL(s, i) ==
    IF i > Len(s) THEN 0
    ELSE IF s[i] = NL THEN i
    ELSE FirstNL(s, i + 1)

\* String.prototype.split("\n"): always at least one line
RECURSIVE SplitLines(_)
SplitLines(s) ==
    LET k == FirstNL(s, 1) IN
    IF k = 0 THEN << s >>
    ELSE << SubSeq(s, 1, k - 1) >> \o SplitLines(SubSeq(s, k + 1, Len(s)))

StartsWith(s, p) == Len(s) >= Len(p) /\ SubSeq(s, 1, Len(p)) = p
EndsWith(s, p) == Len(s) >= Len(p) /\ SubSeq(s, Len(s) - Len(p) + 1, Len(s)) = p

\* String.prototype.includes
Includes(s, p) ==
    \E i \in 1..(Len(s) - Len(p) + 1) : SubSeq(s, i, i + Len(p) - 1) = p

RECURSIVE TrimStart(_)
TrimStart(s) ==
    IF s # <<>> /\ s[1] \in WhiteSpace THEN TrimStart(Tail(s)) ELSE s

RECURSIVE TrimEnd(_)
TrimEnd(s) ==
    IF s # <<>> /\ s[Len(s)] \in WhiteSpace
    THEN TrimEnd(SubSeq(s, 1, Len(s) - 1)) ELSE s

Trim(s) == TrimEnd(TrimStart(s))

\* ------------------------------------------------------------------------
\* Checklist codec
\* ------------------------------------------------------------------------
CommentOpen == << "<", "!", "-", "-" >>
CommentClose == << "-", "-", ">" >>

\* every token of s[from..to] is matched by the regex '.'
AllDot(s, from, to) == \A k \in from..to : s[k] \notin LineTerminators

\* /^- \[([ xX])\] (.+)$/
MatchItem(line) ==
    /\ Len(line) >= 7
    /\ line[1] = "-" /\ line[2] = " " /\ line[3] = "["
    /\ line[4] \in {" ", "x", "X"}
    /\ line[5] = "]" /\ line[6] = " "
    /\ AllDot(line, 7, Len(line))

\* /^<!--.*-->$/
MatchMeta(line) ==
    /\ Len(line) >= 7
    /\ StartsWith(line, CommentOpen)
    /\ EndsWith(line, CommentClose)
    /\ AllDot(line, 5, Len(line) - 3)

\* the item pushed for line i of lines (lines[i] matches)
ItemOfLine(lines, i) ==
    [ done |-> lines[i][4] \in {"x", "X"},
      text |-> SubSeq(lines[i], 7, Len(lines[i])),
      meta |-> IF i > 1 /\ MatchMeta(lines[i - 1]) THEN lines[i - 1] ELSE <<>> ]

RECURSIVE ParseFrom(_, _)
ParseFrom(lines, i) ==
    IF i > Len(lines) THEN <<>>
    ELSE IF MatchItem(lines[i])
         THEN << ItemOfLine(lines, i) >> \o ParseFrom(lines, i + 1)
         ELSE ParseFrom(lines, i + 1)

parseScratchpadNoMeta(content) ==
    LET lines == SplitLines(content) IN
    [ i \in 1..Len(ParseFrom(lines, 1)) |->
        [ ParseFrom(lines, 1)[i] EXCEPT !.meta = <<>> ] ]

parseScratchpad(content) == ParseFrom(SplitLines(content), 1)

ScratchpadHeader == << "#", " ", "Scratchpad" >>

ItemLine(item) ==
    << "-", " ", "[", (IF item.done THEN "x" ELSE " "), "]", " " >> \o item.text

RECURSIVE ItemLines(_)
ItemLines(items) ==
    IF items = <<>> THEN <<>>
    ELSE (IF Head(items).meta # <<>> THEN << Head(items).meta >> ELSE <<>>)
         \o << ItemLine(Head(items)) >>
         \o ItemLines(Tail(items))

serializeScratchpad(items) ==
    Join(<< ScratchpadHeader, <<>> >> \o ItemLines(items), << NL >>) \o << NL >>

\* ------------------------------------------------------------------------
\* Optional parameters (undefined or a string)
\* ------------------------------------------------------------------------
Undefined == [ def |-> FALSE, s |-> <<>> ]
Str(s) == [ def |-> TRUE, s |-> s ]

\* JavaScript truthiness of a possibly undefined string: !v
Falsy(v) == ~v.def \/ v.s = <<>>

\* ------------------------------------------------------------------------
\* Paths and the file system
\* ------------------------------------------------------------------------
\* A path is the sequence of its components below MEMORY_DIR; a leading ".."
\* component is a place above it.  A file name is a token sequence whose
\* tokens are whole components or the separator "/".
MEMORY_DIR == <<>>
MEMORY_FILE == << "MEMORY.md" >>
SCRATCHPAD_FILE == << "SCRATCHPAD.md" >>
DAILY_DIR == << "daily" >>
NOTES_DIR == << "notes" >>

\* path.normalize on the components still to be appended
RECURSIVE Normalize(_, _)
Normalize(stack, name) ==
    IF name = <<>> THEN stack
    ELSE LET c == Head(name) IN
         IF c \in {"/", "."} THEN Normalize(stack, Tail(name))
         ELSE IF c = ".."
              THEN IF stack # <<>> /\ stack[Len(stack)] # ".."
                   THEN Normalize(SubSeq(stack, 1, Len(stack) - 1), Tail(name))
                   ELSE Normalize(Append(stack, ".."), Tail(name))
              ELSE Normalize(Append(stack, c), Tail(name))

\* path.join(dir, name)
PathJoin(dir, name) == Normalize(dir, name)

RECURSIVE StripTrailingSlashes(_)
StripTrailingSlashes(name) ==
    IF name # <<>> /\ name[Len(name)] = "/"
    THEN StripTrailingSlashes(SubSeq(name, 1, Len(name) - 1))
    ELSE name

\* index of the last "/" in name, or 0
RECURSIVE LastSlash(_, _)
LastSlash(name, i) ==
    IF i = 0 THEN 0
    ELSE IF name[i] = "/" THEN i
    ELSE LastSlash(name, i - 1)

BasenameIdentity(name) == name

\* path.basename(name)
Basename(name) ==
    LET n == StripTrailingSlashes(name)
        k == LastSlash(n, Len(n))
    IN  SubSeq(n, k + 1, Len(n))

\* the directories ensureDirs creates
RequiredDirs == { MEMORY_DIR, DAILY_DIR, NOTES_DIR }

ensureDirs(ds) == ds \cup RequiredDirs

Parent(p) == SubSeq(p, 1, Len(p) - 1)

\* a place above MEMORY_DIR is taken to be an existing directory
IsDirectory(ds, p) == p \in ds \/ (p # <<>> /\ p[Len(p)] = "..")

\* a read that sees nothing of the file
readFileSafeStale(fs, ds, p) == [ null |-> TRUE, s |-> <<>> ]

\* readFileSafe: null for a missing file and for a directory
readFileSafe(fs, ds, p) ==
    IF p \in DOMAIN fs /\ ~IsDirectory(ds, p)
    THEN [ null |-> FALSE, s |-> fs[p] ]
    ELSE [ null |-> TRUE, s |-> <<>> ]

\* content?.trim() is truthy
NonBlank(r) == ~r.null /\ Trim(r.s) # <<>>

\* readFileSafe(p) ?? ""
OrEmpty(r) == IF r.null THEN <<>> ELSE r.s

\* fs.writeFileSync throws on a directory and under a missing directory
WriteThrows(ds, p) == p = <<>> \/ IsDirectory(ds, p) \/ ~IsDirectory(ds, Parent(p))

writeFileSync(fs, p, data) ==
    [ q \in (DOMAIN fs) \cup {p} |-> IF q = p THEN data ELSE fs[q] ]

\* ------------------------------------------------------------------------
\* Date and session helpers
\* ------------------------------------------------------------------------
DateStr(d) == "2026-02-" \o ToString(10 + d)

todayStr(d) == DateStr(d)

\* the calendar day before today
yesterdayStr(d) == DateStr(d - 1)

\* nowTimestamp: "YYYY-MM-DD hh:mm:ss"; the seconds are the call counter
nowTimestamp(d, c) == << DateStr(d), " ", "10:00:0" \o ToString(c) >>

shortSessionIdWhole(sid) == sid

\* sessionId.slice(0, 8)
shortSessionId(sid) == SubSeq(sid, 1, Min(8, Len(sid)))

\* `${date}.md`
WithMd(name) ==
    IF name = <<>> THEN << ".md" >>
    ELSE [ name EXCEPT ![Len(name)] = @ \o ".md" ]

dailyPath(date) == PathJoin(DAILY_DIR, WithMd(date))

\* ------------------------------------------------------------------------
\* Memory context builder
\* ------------------------------------------------------------------------
H2 == << "#", "#", " " >>
LongTermTitle == << "MEMORY.md", " ", "(long-term)" >>
ScratchpadTitle == << "SCRATCHPAD.md", " ", "(working", " ", "context)" >>
DailyTitle(date, which) == << "Daily", " ", "log:", " ", date, " ", which >>
MemoryHeading == << "#", " ", "Memory", NL, NL >>
SectionSeparator == << NL, NL, "-", "-", "-", NL, NL >>

\* `## ${title}\n\n${body}`
Section(title, body) == H2 \o title \o << NL, NL >> \o body

\* one section per configured context file with non-blank content
RECURSIVE ContextFileSections(_, _, _)
ContextFileSections(fs, ds, names) ==
    IF names = <<>> THEN <<>>
    ELSE LET content == readFileSafe(fs, ds, PathJoin(MEMORY_DIR, Head(names))) IN
         (IF NonBlank(content)
          THEN << Section(Head(names), Trim(content.s)) >> ELSE <<>>)
         \o ContextFileSections(fs, ds, Tail(names))

IsOpen(item) == ~item.done

LongTermSection(fs, ds) ==
    LET longTerm == readFileSafe(fs, ds, MEMORY_FILE) IN
    IF NonBlank(longTerm)
    THEN << Section(LongTermTitle, Trim(longTerm.s)) >> ELSE <<>>

ScratchpadSectionAllItems(fs, ds) ==
    LET scratchpad == readFileSafe(fs, ds, SCRATCHPAD_FILE) IN
    IF NonBlank(scratchpad)
    THEN << Section(ScratchpadTitle,
                    serializeScratchpad(parseScratchpad(scratchpad.s))) >>
    ELSE <<>>

ScratchpadSection(fs, ds) ==
    LET scratchpad == readFileSafe(fs, ds, SCRATCHPAD_FILE) IN
    IF NonBlank(scratchpad)
    THEN LET openItems == SelectSeq(parseScratchpad(scratchpad.s), IsOpen) IN
         IF Len(openItems) > 0
         THEN << Section(ScratchpadTitle, serializeScratchpad(openItems)) >>
         ELSE <<>>
    ELSE <<>>

DailySection(fs, ds, date, which) ==
    LET content == readFileSafe(fs, ds, dailyPath(<< date >>)) IN
    IF NonBlank(content)
    THEN << Section(DailyTitle(date, which), Trim(content.s)) >> ELSE <<>>

BuildSectionsDailyFirst(fs, ds, names, d) ==
    ContextFileSections(fs, ds, names)
    \o DailySection(fs, ds, todayStr(d), "(today)")
    \o DailySection(fs, ds, yesterdayStr(d), "(yesterday)")
    \o LongTermSection(fs, ds)
    \o ScratchpadSection(fs, ds)

\* the sections array of buildMemoryContext when it returns
BuildSections(fs, ds, names, d) ==
    ContextFileSections(fs, ds, names)
    \o LongTermSection(fs, ds)
    \o ScratchpadSection(fs, ds)
    \o DailySection(fs, ds, todayStr(d), "(today)")
    \o DailySection(fs, ds, yesterdayStr(d), "(yesterday)")

AssembleNoSeparator(secs) ==
    IF Len(secs) = 0 THEN <<>> ELSE MemoryHeading \o Concat(secs)

\* the value buildMemoryContext returns for its sections array
Assemble(secs) ==
    IF Len(secs) = 0 THEN <<>>
    ELSE MemoryHeading \o Join(secs, SectionSeparator)

buildMemoryContext(fs, ds, names, d) ==
    Assemble(BuildSections(fs, ensureDirs(ds), names, d))

\* ------------------------------------------------------------------------
\* Tools
\* ------------------------------------------------------------------------
\* what a tool call did: thrown or returned, the result text, the reported
\* details.mode, the files afterwards and the commits attempted
Returned(text, mode, fs, commits) ==
    [ threw |-> FALSE, out |-> text, outMode |-> mode, fs |-> fs, commits |-> commits ]

Threw(error, fs) ==
    [ threw |-> TRUE, out |-> << error >>, outMode |-> "-", fs |-> fs, commits |-> <<>> ]

\* gitCommit(message): the commits attempted.  AUTOCOMMIT is true for the
\* values "1" and "true" of PI_AUTOCOMMIT only; a failing git add or git
\* commit throws inside the try block and is swallowed
gitCommitAnyValue(ac, message) ==
    IF ac.env.def
    THEN << [ message |-> message, failed |-> ~ac.git ] >>
    ELSE <<>>

gitCommit(ac, message) ==
    IF ac.env \in { Str(<< "1" >>), Str(<< "t", "r", "u", "e" >>) }
    THEN << [ message |-> message, failed |-> ~ac.git ] >>
    ELSE <<>>

\* `<!-- ${ts} [${sid}] -->`
Stamp(ts, sid) ==
    CommentOpen \o << " " >> \o ts \o << " ", "[" >> \o sid \o << "]", " " >>
    \o CommentClose

\* `<!-- last updated: ${ts} [${sid}] -->`
StampUpdated(ts, sid) ==
    CommentOpen \o << " ", "last", " ", "updated:", " " >> \o ts
    \o << " ", "[" >> \o sid \o << "]", " " >> \o CommentClose

AppendedDropsExisting(existing, ts, sid, content) ==
    Stamp(ts, sid) \o << NL >> \o content

\* existing + separator + stamped
Appended(existing, ts, sid, content) ==
    existing
    \o (IF Trim(existing) # <<>> THEN << NL, NL >> ELSE <<>>)
    \o Stamp(ts, sid) \o << NL >> \o content

Overwritten(ts, sid, content) == StampUpdated(ts, sid) \o << NL >> \o content

\* `\n\nExisting ${what} content:\n${existing.trim()}` or the empty notice
ExistingSnippet(existing, some, none) ==
    IF Trim(existing) # <<>>
    THEN << NL, NL, some, NL >> \o Trim(existing)
    ELSE << NL, NL, none >>

\* the write of a tool, which throws when fs.writeFileSync does
WriteThen(fs, ds, p, data, text, mode, commits) ==
    IF WriteThrows(ds, p) THEN Threw("EISDIR", fs)
    ELSE Returned(text, mode, writeFileSync(fs, p, data), commits)

\* the names memory_write.execute destructures from params
MemoryWriteParams == { "target", "content", "mode" }

\* the names memory_read.execute destructures from params
MemoryReadParams == { "target", "date", "filename" }

DailyWriteHonoursMode(existing, ts, sid, content, mode) ==
    IF mode = "overwrite" THEN Overwritten(ts, sid, content)
    ELSE Appended(existing, ts, sid, content)

\* the new content of today's daily log: the mode is not consulted
DailyWrite(existing, ts, sid, content, mode) == Appended(existing, ts, sid, content)

\* memory_write.execute, target note
WriteNote(fs, ds, ts, sid, ac, content, mode, filename) ==
    IF "filename" \notin MemoryWriteParams
    THEN Threw("ReferenceError: filename is not defined", fs)
    ELSE IF Falsy(filename)
    THEN Returned(<< "Error:", " ", "'filename' is required for target 'note'." >>,
                  "-", fs, <<>>)
    ELSE LET safe == Basename(filename.s)
             filePath == PathJoin(NOTES_DIR, safe)
             existing == OrEmpty(readFileSafe(fs, ds, filePath))
         IN  IF mode = "overwrite"
             THEN WriteThen(fs, ds, filePath, Overwritten(ts, sid, content),
                            << "Wrote", " ", "notes/" >> \o safe, "overwrite",
                            gitCommit(ac, << "note:", " " >> \o safe))
             ELSE WriteThen(fs, ds, filePath, Appended(existing, ts, sid, content),
                            << "Appended to", " ", "notes/" >> \o safe, "append",
                            gitCommit(ac, << "note:", " " >> \o safe))

\* memory_write.execute, target daily
WriteDaily(fs, ds, d, ts, sid, ac, content, mode) ==
    LET filePath == dailyPath(<< todayStr(d) >>)
        existing == OrEmpty(readFileSafe(fs, ds, filePath))
    IN  WriteThen(fs, ds, filePath, DailyWrite(existing, ts, sid, content, mode),
                  << "Appended to daily log:", " " >> \o filePath
                  \o ExistingSnippet(existing, "Existing daily log content:",
                                     "Daily log was empty."),
                  "append", gitCommit(ac, << "daily:", " ", todayStr(d) >>))

\* memory_write.execute, target long_term
WriteLongTerm(fs, ds, ts, sid, ac, content, mode) ==
    LET existing == OrEmpty(readFileSafe(fs, ds, MEMORY_FILE))
        snippet == ExistingSnippet(existing, "Existing MEMORY.md content:",
                                   "MEMORY.md was empty.")
    IN  IF mode = "overwrite"
        THEN WriteThen(fs, ds, MEMORY_FILE, Overwritten(ts, sid, content),
                       << "Overwrote MEMORY.md" >> \o snippet, "overwrite",
                       gitCommit(ac, << "memory: overwrite" >>))
        ELSE WriteThen(fs, ds, MEMORY_FILE, Appended(existing, ts, sid, content),
                       << "Appended to MEMORY.md" >> \o snippet, "append",
                       gitCommit(ac, << "memory: append" >>))

\* memory_write.execute, after ensureDirs
memoryWrite(fs, ds, d, c, session, ac, target, content, mode, filename) ==
    LET sid == shortSessionId(session)
        ts == nowTimestamp(d, c)
    IN  IF target = "note"
        THEN WriteNote(fs, ds, ts, sid, ac, content, mode, filename)
        ELSE IF target = "daily"
        THEN WriteDaily(fs, ds, d, ts, sid, ac, content, mode)
        ELSE WriteLongTerm(fs, ds, ts, sid, ac, content, mode)

\* String.prototype.toLowerCase on the model's characters
LowerChar(t) ==
    CASE t = "A" -> "a" [] t = "B" -> "b" [] t = "C" -> "c" [] t = "X" -> "x"
      [] OTHER -> t

toLowerCase(s) == [ i \in 1..Len(s) |-> LowerChar(s[i]) ]

\* the first item whose text contains the needle, open or done
FirstMatchAnyState(items, i, targetDone, needle) ==
    LET hits == { k \in i..Len(items) : Includes(toLowerCase(items[k].text), needle) }
    IN  IF hits = {} THEN 0 ELSE CHOOSE k \in hits : \A h \in hits : k <= h

\* index of the first item a done/undo call flips, or 0
RECURSIVE FirstMatch(_, _, _, _)
FirstMatch(items, i, targetDone, needle) ==
    IF i > Len(items) THEN 0
    ELSE IF items[i].done # targetDone
            /\ Includes(toLowerCase(items[i].text), needle)
         THEN i
         ELSE FirstMatch(items, i + 1, targetDone, needle)

\* scratchpad.execute, after ensureDirs
scratchpad(fs, ds, d, c, session, ac, action, text) ==
    LET sid == shortSessionId(session)
        ts == nowTimestamp(d, c)
        existing == OrEmpty(readFileSafe(fs, ds, SCRATCHPAD_FILE))
        items == parseScratchpad(existing)
    IN  CASE action = "list" ->
               IF Len(items) = 0
               THEN Returned(<< "Scratchpad is empty." >>, "-", fs, <<>>)
               ELSE Returned(serializeScratchpad(items), "-", fs, <<>>)
          [] action = "add" ->
               IF Falsy(text)
               THEN Returned(<< "Error:", " ", "'text' is required for add." >>,
                             "-", fs, <<>>)
               ELSE LET added == Append(items, [ done |-> FALSE, text |-> text.s,
                                                 meta |-> Stamp(ts, sid) ])
                    IN  WriteThen(fs, ds, SCRATCHPAD_FILE, serializeScratchpad(added),
                                  << "Added:", " ", "-", " ", "[", " ", "]", " " >>
                                  \o text.s \o << NL, NL >> \o serializeScratchpad(added),
                                  "-", gitCommit(ac, << "scratchpad:", " ", "add" >>))
          [] action \in {"done", "undo"} ->
               IF Falsy(text)
               THEN Returned(<< "Error:", " ", "'text' is required for", " ", action, "." >>,
                             "-", fs, <<>>)
               ELSE LET targetDone == (action = "done")
                        k == FirstMatch(items, 1, targetDone, toLowerCase(text.s))
                        flipped == [ items EXCEPT ![k].done = targetDone ]
                    IN  IF k = 0
                        THEN Returned(<< "No matching", " ",
                                         (IF targetDone THEN "open" ELSE "done"),
                                         " ", "item found for:", " ", "\"" >>
                                      \o text.s \o << "\"" >>, "-", fs, <<>>)
                        ELSE WriteThen(fs, ds, SCRATCHPAD_FILE,
                                       serializeScratchpad(flipped),
                                       << "Updated.", NL, NL >>
                                       \o serializeScratchpad(flipped),
                                       "-", gitCommit(ac, << "scratchpad:", " ", action >>))
          [] action = "clear_done" ->
               LET kept == SelectSeq(items, IsOpen)
                   removed == Len(items) - Len(kept)
               IN  WriteThen(fs, ds, SCRATCHPAD_FILE, serializeScratchpad(kept),
                             << "Cleared", " ", ToString(removed), " ", "done item(s).",
                                NL, NL >> \o serializeScratchpad(kept),
                             "-", gitCommit(ac, << "scratchpad:", " ", "clear_done" >>))
          [] OTHER ->
               Returned(<< "Unknown action:", " ", action >>, "-", fs, <<>>)

\* memory_read.execute, targets file and note: the file read below dir
ReadNamed(fs, ds, dir, filename, required, missing, prefix) ==
    IF "filename" \notin MemoryReadParams
    THEN Threw("ReferenceError: filename is not defined", fs)
    ELSE IF Falsy(filename)
    THEN Returned(<< "Error:", " ", required >>, "-", fs, <<>>)
    ELSE LET safe == Basename(filename.s)
             content == readFileSafe(fs, ds, PathJoin(dir, safe))
         IN  IF content.null \/ content.s = <<>>
             THEN Returned(<< missing, " " >> \o prefix \o safe, "-", fs, <<>>)
             ELSE Returned(content.s, "-", fs, <<>>)

\* a whole-file read that reports an empty or missing file
ReadWhole(fs, ds, p, blankCounts, missing) ==
    LET content == readFileSafe(fs, ds, p) IN
    IF content.null \/ content.s = <<>> \/ (blankCounts /\ Trim(content.s) = <<>>)
    THEN Returned(missing, "-", fs, <<>>)
    ELSE Returned(content.s, "-", fs, <<>>)

\* the .md and .json names the model's directories can hold, in the order
\* Array.prototype.sort gives them (UTF-16 code units)
SortedNames(maxDay) ==
    [ i \in 1..(maxDay + 1) |-> DateStr(i - 1) \o ".md" ]
    \o << "AGENTS.md", "MEMORY.md", "SCRATCHPAD.md", "SOUL.md", "cache.json", "n.md" >>

IsMdName(n) == n # "cache.json"

\* fs.readdirSync(dir), filtered by extension and sorted
Listing(fs, dir, withJson, maxDay) ==
    LET here(n) == \E p \in DOMAIN fs : p # <<>> /\ Parent(p) = dir /\ p[Len(p)] = n
        keep(n) == here(n) /\ (IsMdName(n) \/ withJson)
    IN  SelectSeq(SortedNames(maxDay), keep)

Reverse(s) == [ i \in 1..Len(s) |-> s[Len(s) + 1 - i] ]

\* `- ${prefix}${f}` lines joined by newlines
Bullets(names, prefix) ==
    Join([ i \in 1..Len(names) |-> << "-", " " >> \o prefix \o << names[i] >> ], << NL >>)

\* memory_read.execute, target list
ReadList(fs, maxDay) ==
    LET rootFiles == Listing(fs, MEMORY_DIR, TRUE, maxDay)
        noteFiles == Listing(fs, NOTES_DIR, FALSE, maxDay)
        dailyFiles == Reverse(Listing(fs, DAILY_DIR, FALSE, maxDay))
        secs ==
            (IF Len(rootFiles) > 0
             THEN << << "Files:", NL >> \o Bullets(rootFiles, <<>>) >> ELSE <<>>)
            \o (IF Len(noteFiles) > 0
                THEN << << "Notes:", NL >> \o Bullets(noteFiles, << "notes/" >>) >>
                ELSE <<>>)
            \o (IF Len(dailyFiles) > 0
                THEN << << "Daily logs", " ", "(", ToString(Len(dailyFiles)), "):", NL >>
                        \o Bullets(SubSeq(dailyFiles, 1, Min(10, Len(dailyFiles))),
                                   << "daily/" >>)
                        \o (IF Len(dailyFiles) > 10
                            THEN << NL, " ", " ", "... and", " ",
                                    ToString(Len(dailyFiles) - 10), " ", "more" >>
                            ELSE <<>>) >>
                ELSE <<>>)
    IN  IF Len(secs) = 0
        THEN Returned(<< "Memory directory is empty." >>, "-", fs, <<>>)
        ELSE Returned(Join(secs, << NL, NL >>), "-", fs, <<>>)

\* memory_read.execute, after ensureDirs
memoryRead(fs, ds, d, maxDay, target, date, filename) ==
    CASE target = "list" -> ReadList(fs, maxDay)
      [] target = "file" ->
           ReadNamed(fs, ds, MEMORY_DIR, filename,
                     "'filename' is required for target 'file'.",
                     "File not found:", <<>>)
      [] target = "note" ->
           ReadNamed(fs, ds, NOTES_DIR, filename,
                     "'filename' is required for target 'note'.",
                     "Note not found:", << "notes/" >>)
      [] target = "daily" ->
           LET dd == IF date.def THEN date.s ELSE << todayStr(d) >> IN
           ReadWhole(fs, ds, dailyPath(dd), FALSE,
                     << "No daily log for", " " >> \o dd \o << "." >>)
      [] target = "scratchpad" ->
           ReadWhole(fs, ds, SCRATCHPAD_FILE, TRUE,
                     << "SCRATCHPAD.md is empty or does not exist." >>)
      [] OTHER ->
           ReadWhole(fs, ds, MEMORY_FILE, FALSE,
                     << "MEMORY.md is empty or does not exist." >>)


\* ------------------------------------------------------------------------
\* Handlers
\* ------------------------------------------------------------------------
NoCall ==
    [ op |-> "none", target |-> "-", action |-> "-", mode |-> "-",
      filename |-> Undefined, text |-> Undefined, date |-> Undefined,
      content |-> <<>>, prompt |-> <<>>,
      threw |-> FALSE, returned |-> FALSE, out |-> <<>>, outMode |-> "-",
      commits |-> <<>> ]

MemoryInstructionLines ==
    << << NL, NL, "#", "#", " ", "Memory" >>,
       << "The following memory files have been loaded. Use the memory_write tool to persist important information." >>,
       << "- Decisions, preferences, and durable facts -> MEMORY.md" >>,
       << "- Day-to-day notes and running context -> daily/<YYYY-MM-DD>.md" >>,
       << "- Things to fix later or keep in mind -> scratchpad tool" >>,
       << "- If someone says \"remember this,\" write it immediately." >>,
       <<>> >>

\* memoryInstructions of the before_agent_start handler
memoryInstructions(ctx) == Join(Append(MemoryInstructionLines, ctx), << NL >>)

SystemPrompts == { <<>>, << "You are pi.", NL >> }

InjectContextOnly(prompt, ctx) == prompt \o ctx

\* the systemPrompt the before_agent_start handler returns
InjectedPrompt(prompt, ctx) == prompt \o memoryInstructions(ctx)

\* pi.on("before_agent_start")
BeforeAgentStart ==
    \E prompt \in SystemPrompts :
        LET secs == BuildSections(files, ensureDirs(dirs), contextFiles, day)
            ctx == buildMemoryContext(files, dirs, contextFiles, day)
        IN  /\ dirs' = ensureDirs(dirs)
            /\ sections' = secs
            /\ memoryContext' = ctx
            /\ last' = [ NoCall EXCEPT
                            !.op = "before_agent_start",
                            !.prompt = prompt,
                            !.returned = (ctx # <<>>),
                            !.out = IF ctx # <<>>
                                    THEN InjectedPrompt(prompt, ctx)
                                    ELSE <<>> ]
            /\ UNCHANGED << files, envVars, calls, codecVars, histVars, bgVars >>

CompactNotice ==
    << "Memory files available - consider persisting important context before compaction" >>

\* pi.on("session_before_compact")
SessionBeforeCompact ==
    LET secs == BuildSections(files, ensureDirs(dirs), contextFiles, day)
        ctx == buildMemoryContext(files, dirs, contextFiles, day)
    IN  /\ dirs' = ensureDirs(dirs)
        /\ sections' = secs
        /\ memoryContext' = ctx
        /\ last' = [ NoCall EXCEPT
                        !.op = "session_before_compact",
                        !.out = IF Len(ctx) > 0 THEN CompactNotice ELSE <<>> ]
        /\ UNCHANGED << files, envVars, calls, codecVars, histVars, bgVars >>

\* ------------------------------------------------------------------------
\* The assembler applied to bounded memory roots
\* ------------------------------------------------------------------------
MetaA == CommentOpen \o << " ", "t", " ", "[", "s", "]", " " >> \o CommentClose

PlainContents == { << " ", NL >>, << NL, "m", " ", "n", NL >> }

ChecklistContents ==
    { <<>>,
      << " ", NL >>,
      serializeScratchpad(<< [done |-> TRUE, text |-> << "a" >>, meta |-> MetaA] >>),
      serializeScratchpad(<< [done |-> FALSE, text |-> << "a" >>, meta |-> MetaA],
                             [done |-> TRUE, text |-> << "b" >>, meta |-> <<>>],
                             [done |-> FALSE, text |-> << "c" >>, meta |-> <<>>] >>),
      \* written by hand: prose, upper-case X, a comment before a done item
      << "t", "o", "d", "o", NL >> \o MetaA \o << NL >>
         \o << "-", " ", "[", "X", "]", " ", "a", NL >>
         \o << "-", " ", "[", " ", "]", " ", "b" >> }

ContextFileConfigs ==
    { <<>>,
      << << "SOUL.md" >>, << "AGENTS.md" >> >>,
      << << "SOUL.md" >>, << "SOUL.md" >> >> }

SessionIds ==
    { << "a", "b", "c" >>,
      << "5", "5", "0", "e", "8", "4", "0", "0", "-", "e", "2" >> }

\* the files the assembler may read, besides the checklist
PlainSources(d) ==
    { << "SOUL.md" >>, << "AGENTS.md" >>, MEMORY_FILE,
      dailyPath(<< todayStr(d) >>), dailyPath(<< yesterdayStr(d) >>) }

\* every memory root made of the contents above, any file possibly missing
MemoryRoots(d) ==
    { f \in UNION { [ S -> PlainContents \cup ChecklistContents ] :
                    S \in SUBSET (PlainSources(d) \cup {SCRATCHPAD_FILE}) } :
        \A p \in DOMAIN f :
            IF p = SCRATCHPAD_FILE THEN f[p] \in ChecklistContents
            ELSE f[p] \in PlainContents }

CodecIdle ==
    /\ cItems = <<>> /\ cText = <<>> /\ cParsed = <<>> /\ cPc = "idle"

InitContext ==
    /\ day = 2
    /\ files \in MemoryRoots(2)
    /\ dirs \in { {}, { MEMORY_DIR }, RequiredDirs }
    /\ \A p \in DOMAIN files : Parent(p) \in dirs
    /\ contextFiles \in ContextFileConfigs
    /\ sessionId = << "a", "b", "c" >>
    /\ autocommit = [ env |-> Undefined, git |-> TRUE ]
    /\ calls = 0
    /\ last = NoCall
    /\ sections = <<>>
    /\ memoryContext = <<>>
    /\ appended = {} /\ journal = <<>>
    /\ allDone = FALSE
    /\ CodecIdle
    /\ BackgroundIdle

NextContext == BeforeAgentStart \/ SessionBeforeCompact

SpecContext == InitContext /\ [][NextContext]_vars

\* ------------------------------------------------------------------------
\* Tool calls and events
\* ------------------------------------------------------------------------
Contents == { << "z", " " >>, << " " >> }
Modes == { "undefined", "append", "overwrite" }
Filenames ==
    { Undefined, Str(<<>>), Str(<< "n.md" >>),
      Str(<< "..", "/", "MEMORY.md" >>), Str(<< ".." >>) }
PadTexts == { Undefined, Str(<< "a" >>), Str(<< "B" >>) }

\* a text of two lines, the second in the form of a done item
TwoLineText == Str(<< "a", NL, "-", " ", "[", "x", "]", " ", "b" >>)

\* the argument lists of the memory_write calls the model makes
WriteCalls ==
    [ target : {"long_term", "daily"}, content : Contents, mode : Modes,
      filename : {Undefined} ]
    \cup [ target : {"note"}, content : { << "z", " " >> },
           mode : {"undefined", "overwrite"},
           filename : { Undefined, Str(<< "n.md" >>), Str(<< "..", "/", "MEMORY.md" >>) } ]

\* the argument lists of the scratchpad calls the model makes
PadCalls ==
    [ action : {"add", "done", "undo"}, text : PadTexts ]
    \cup [ action : {"add"}, text : { Str(<<>>) } ]
    \cup [ action : {"clear_done", "list"}, text : {Undefined} ]

\* the scratchpad calls, and an add with a text of two lines
PadCallsAnyText == PadCalls \cup [ action : {"add"}, text : { TwoLineText } ]

\* the argument lists of the memory_read calls the model makes
ReadCalls(d) ==
    [ target : {"long_term", "scratchpad", "list"}, date : {Undefined},
      filename : {Undefined} ]
    \cup [ target : {"daily"}, date : { Undefined, Str(<< yesterdayStr(d) >>) },
           filename : {Undefined} ]
    \cup [ target : {"file"}, date : {Undefined},
           filename : { Undefined, Str(<< "..", "/", "MEMORY.md" >>) } ]
    \cup [ target : {"note"}, date : {Undefined}, filename : Filenames ]

\* the history the long-term file keeps of the contents appended to it
AppendedAfter(hist, call, result) ==
    IF call.target # "long_term" \/ result.threw THEN hist
    ELSE IF call.mode = "overwrite" THEN {}
    ELSE hist \cup { call.content }

\* whether the last add, done or undo that changed the checklist was a done
\* that left no open item
AllDoneAfter(flag, call, before, after) ==
    IF call.action \in {"add", "done", "undo"} /\ after # before
    THEN call.action = "done"
         /\ SelectSeq(parseScratchpad(after[SCRATCHPAD_FILE]), IsOpen) = <<>>
    ELSE flag

\* the journal without the entries of file p
Forget(j, p) == LET Other(e) == e.path # p IN SelectSeq(j, Other)

\* the journal after a memory_write call: an append adds its stamped block,
\* an overwrite of the long-term file forgets the blocks of that file
JournalAfterWrite(j, call, result, d, c, session) ==
    LET block == Stamp(nowTimestamp(d, c), shortSessionId(session))
                 \o << NL >> \o call.content
    IN  IF result.threw \/ call.target = "note" THEN j
        ELSE IF call.target = "daily"
        THEN Append(j, [ path |-> dailyPath(<< todayStr(d) >>), block |-> block ])
        ELSE IF call.mode = "overwrite" THEN Forget(j, MEMORY_FILE)
        ELSE Append(j, [ path |-> MEMORY_FILE, block |-> block ])

\* the journal after a scratchpad call: an add adds its meta line and item
\* line, a done, undo or clear_done that wrote forgets the checklist's blocks
JournalAfterPad(j, call, result, d, c, session) ==
    IF \/ result.threw
       \/ call.action = "list"
       \/ result.out[1] \in { "Error:", "No matching", "Unknown action:" }
    THEN j
    ELSE IF call.action = "add"
    THEN Append(j, [ path |-> SCRATCHPAD_FILE,
                     block |-> Stamp(nowTimestamp(d, c), shortSessionId(session))
                               \o << NL, "-", " ", "[", " ", "]", " " >>
                               \o call.text.s ])
    ELSE Forget(j, SCRATCHPAD_FILE)

\* memory_write.execute
MemoryWrite ==
    /\ calls < MaxCalls
    /\ \E call \in WriteCalls :
        LET result == memoryWrite(files, ensureDirs(dirs), day, calls, sessionId,
                                  autocommit, call.target, call.content, call.mode,
                                  call.filename)
        IN  /\ dirs' = ensureDirs(dirs)
            /\ files' = result.fs
            /\ last' = [ NoCall EXCEPT
                            !.op = "memory_write", !.target = call.target,
                            !.mode = call.mode, !.filename = call.filename,
                            !.content = call.content, !.threw = result.threw,
                            !.returned = ~result.threw, !.out = result.out,
                            !.outMode = result.outMode, !.commits = result.commits ]
            /\ appended' = AppendedAfter(appended, call, result)
            /\ journal' = JournalAfterWrite(journal, call, result, day, calls, sessionId)
    /\ calls' = calls + 1
    /\ sections' = <<>> /\ memoryContext' = <<>>
    /\ UNCHANGED << envVars, codecVars, allDone, bgVars >>

\* scratchpad.execute, called with one of the argument lists Calls
ScratchpadCall(Calls) ==
    /\ calls < MaxCalls
    /\ \E call \in Calls :
        LET result == scratchpad(files, ensureDirs(dirs), day, calls, sessionId,
                                 autocommit, call.action, call.text)
        IN  /\ dirs' = ensureDirs(dirs)
            /\ files' = result.fs
            /\ last' = [ NoCall EXCEPT
                            !.op = "scratchpad", !.action = call.action,
                            !.text = call.text, !.threw = result.threw,
                            !.returned = ~result.threw, !.out = result.out,
                            !.commits = result.commits ]
            /\ allDone' = AllDoneAfter(allDone, call, files, result.fs)
            /\ journal' = JournalAfterPad(journal, call, result, day, calls, sessionId)
    /\ calls' = calls + 1
    /\ sections' = <<>> /\ memoryContext' = <<>>
    /\ UNCHANGED << envVars, codecVars, appended, bgVars >>

Scratchpad == ScratchpadCall(PadCalls)

ScratchpadAnyText == ScratchpadCall(PadCallsAnyText)

\* memory_read.execute
MemoryRead ==
    /\ \E call \in ReadCalls(day) :
        LET result == memoryRead(files, ensureDirs(dirs), day, MaxDay, call.target,
                                 call.date, call.filename)
        IN  /\ dirs' = ensureDirs(dirs)
            /\ last' = [ NoCall EXCEPT
                            !.op = "memory_read", !.target = call.target,
                            !.date = call.date, !.filename = call.filename,
                            !.threw = result.threw, !.returned = ~result.threw,
                            !.out = result.out ]
    /\ sections' = <<>> /\ memoryContext' = <<>>
    /\ UNCHANGED << files, envVars, calls, codecVars, histVars, bgVars >>

\* the wall clock passes midnight (UTC)
Midnight ==
    /\ day < MaxDay
    /\ day' = day + 1
    /\ last' = [ NoCall EXCEPT !.op = "midnight" ]
    /\ sections' = <<>> /\ memoryContext' = <<>>
    /\ UNCHANGED << diskVars, contextFiles, sessionId, autocommit, calls,
                    codecVars, histVars, bgVars >>

\* ------------------------------------------------------------------------
\* The extension at work on a memory root
\* ------------------------------------------------------------------------
ChecklistA ==
    serializeScratchpad(<< [done |-> FALSE, text |-> << "a" >>, meta |-> MetaA],
                           [done |-> TRUE, text |-> << "b" >>, meta |-> <<>>],
                           [done |-> FALSE, text |-> << "a", "b" >>, meta |-> <<>>] >>)

ChecklistB ==
    serializeScratchpad(<< [done |-> TRUE, text |-> << "a" >>, meta |-> MetaA],
                           [done |-> FALSE, text |-> << "b" >>, meta |-> <<>>] >>)

LongSessionId == << "5", "5", "0", "e", "8", "4", "0", "0", "-", "e", "2" >>

\* the memory roots a session starts on: an empty one, a used one, and one
\* with blank files
Roots(d) ==
    { [ files |-> << >>, dirs |-> {}, contextFiles |-> <<>>,
        sessionId |-> << "a", "b", "c" >>, autocommit |-> [ env |-> Undefined, git |-> TRUE ] ],
      [ files |-> (MEMORY_FILE :> << "m" >>)
                  @@ (SCRATCHPAD_FILE :> ChecklistA)
                  @@ (<< "SOUL.md" >> :> << "s" >>)
                  @@ (dailyPath(<< todayStr(d) >>) :> << "d", NL >>)
                  @@ (dailyPath(<< yesterdayStr(d) >>) :> << "y" >>)
                  @@ (<< "notes", "n.md" >> :> << "n" >>)
                  @@ (<< "notes", "MEMORY.md" >> :> << "k" >>),
        dirs |-> RequiredDirs, contextFiles |-> << << "SOUL.md" >> >>,
        sessionId |-> LongSessionId, autocommit |-> [ env |-> Str(<< "1" >>), git |-> TRUE ] ],
      [ files |-> (MEMORY_FILE :> << " ", NL >>)
                  @@ (SCRATCHPAD_FILE :> ChecklistB)
                  @@ (dailyPath(<< todayStr(d) >>) :> <<>>)
                  @@ (<< "notes", "n.md" >> :> <<>>),
        dirs |-> RequiredDirs, contextFiles |-> << << "SOUL.md" >> >>,
        sessionId |-> << "a", "b", "c" >>, autocommit |-> [ env |-> Str(<< "1" >>), git |-> TRUE ] ] }

Init ==
    /\ day = 2
    /\ \E r \in Roots(2) :
          /\ files = r.files
          /\ dirs = r.dirs
          /\ contextFiles = r.contextFiles
          /\ sessionId = r.sessionId
          /\ autocommit = r.autocommit
    /\ calls = 0
    /\ last = NoCall
    /\ sections = <<>>
    /\ memoryContext = <<>>
    /\ appended = {} /\ journal = <<>>
    /\ allDone = FALSE
    /\ CodecIdle
    /\ BackgroundIdle

Next ==
    \/ BeforeAgentStart
    \/ SessionBeforeCompact
    \/ MemoryWrite
    \/ Scratchpad
    \/ MemoryRead
    \/ Midnight

Spec == Init /\ [][Next]_vars

\* turns of the agent: tool calls that change the memory, each followed or
\* not by the next pre-turn event
SpecTurns == Init /\ [][MemoryWrite \/ Scratchpad \/ BeforeAgentStart]_vars

\* writes over several days
SpecDays == Init /\ [][MemoryWrite \/ Midnight]_vars

\* writes and reads of the memory files
SpecFiles == Init /\ [][MemoryWrite \/ MemoryRead]_vars

\* ------------------------------------------------------------------------
\* Codec round trip (pure functions applied to bounded inputs)
\* ------------------------------------------------------------------------
CodecTexts ==
    { <<>>,                                   \* empty text
      << "a", " " >>,                         \* trailing blank
      << "a", CR, "b" >>,                     \* carriage return inside
      << "a", NL, "b" >>,                     \* newline inside
      << "-", " ", "[", "x", "]", " ", "b" >> }\* looks like a checklist line

CodecMetas ==
    { <<>>,
      CommentOpen \o CommentClose,
      << "n", "o", "t", "e" >> }              \* not a comment line

CodecItem == [ done : BOOLEAN, text : CodecTexts, meta : CodecMetas ]

CodecLists == UNION { [ 1..n -> CodecItem ] : n \in 0..MaxItems }

InitCodec ==
    /\ cItems \in CodecLists
    /\ cText = <<>>
    /\ cParsed = <<>>
    /\ cPc = "start"
    /\ files = << >>
    /\ dirs = {}
    /\ contextFiles = <<>>
    /\ day = 2
    /\ sessionId = << "a", "b", "c" >>
    /\ autocommit = [ env |-> Undefined, git |-> TRUE ]
    /\ calls = 0
    /\ last = NoCall
    /\ sections = <<>>
    /\ memoryContext = <<>>
    /\ appended = {} /\ journal = <<>>
    /\ allDone = FALSE
    /\ BackgroundIdle

CodecSerialize ==
    /\ cPc = "start"
    /\ cText' = serializeScratchpad(cItems)
    /\ cPc' = "serialized"
    /\ UNCHANGED << cItems, cParsed >>
    /\ UNCHANGED << diskVars, envVars, calls, last, ctxVars, histVars, bgVars >>

CodecParse ==
    /\ cPc = "serialized"
    /\ cParsed' = parseScratchpad(cText)
    /\ cPc' = "parsed"
    /\ UNCHANGED << cItems, cText >>
    /\ UNCHANGED << diskVars, envVars, calls, last, ctxVars, histVars, bgVars >>

NextCodec == CodecSerialize \/ CodecParse

SpecCodec == InitCodec /\ [][NextCodec]_vars

\* ------------------------------------------------------------------------
\* C1
\* ------------------------------------------------------------------------
NoNewline(s) == \A k \in 1..Len(s) : s[k] # NL
NoLineTerminator(s) == \A k \in 1..Len(s) : s[k] \notin LineTerminators
WellFormedMeta(m) == m = <<>> \/ MatchMeta(m)

C1_InDomain ==
    \A i \in 1..Len(cItems) :
        /\ cItems[i].text # <<>>
        /\ NoLineTerminator(cItems[i].text)
        /\ WellFormedMeta(cItems[i].meta)

AfterAssembly == last.op \in {"before_agent_start", "session_before_compact"}

RECURSIVE HeadingTitlesOf(_)
HeadingTitlesOf(lines) ==
    IF lines = <<>> THEN <<>>
    ELSE (IF StartsWith(Head(lines), H2)
          THEN << SubSeq(Head(lines), Len(H2) + 1, Len(Head(lines))) >>
          ELSE <<>>)
         \o HeadingTitlesOf(Tail(lines))

\* the titles of the second-level headings of a text, in order of appearance
HeadingTitles(text) == HeadingTitlesOf(SplitLines(text))

RECURSIVE IsSubsequence(_, _)
IsSubsequence(a, b) ==
    IF a = <<>> THEN TRUE
    ELSE IF b = <<>> THEN FALSE
    ELSE IF Head(a) = Head(b) THEN IsSubsequence(Tail(a), Tail(b))
    ELSE IsSubsequence(a, Tail(b))

RECURSIVE SumLen(_)
SumLen(ss) == IF ss = <<>> THEN 0 ELSE Len(Head(ss)) + SumLen(Tail(ss))

Occurrences(s, p) ==
    Cardinality({ i \in 1..(Len(s) - Len(p) + 1) : SubSeq(s, i, i + Len(p) - 1) = p })

PadHeading == H2 \o ScratchpadTitle \o << NL, NL >>
IsPadSection(sec) == StartsWith(sec, PadHeading)
PadSections == SelectSeq(sections, IsPadSection)
PadBody(sec) == SubSeq(sec, Len(PadHeading) + 1, Len(sec))
PadOnDisk == OrEmpty(readFileSafe(files, dirs, SCRATCHPAD_FILE))
ItemsOnDisk == parseScratchpad(PadOnDisk)
OpenOnDisk == SelectSeq(ItemsOnDisk, IsOpen)
FileNonBlank(p) == p \in DOMAIN files /\ p \notin dirs /\ Trim(files[p]) # <<>>

\* C2: the checklist contributes a section only when it has an open item;
\* the section holds exactly the open items, in file order and with their
\* meta, and no done item; a missing, blank or all-done checklist
\* contributes no section.
C2_ChecklistSection ==
    AfterAssembly =>
        /\ Len(PadSections) = (IF Len(OpenOnDisk) > 0 THEN 1 ELSE 0)
        /\ Occurrences(memoryContext, H2 \o ScratchpadTitle) = Len(PadSections)
        /\ \A i \in 1..Len(PadSections) :
              /\ Includes(memoryContext, PadSections[i])
              /\ parseScratchpad(PadBody(PadSections[i])) = OpenOnDisk
              /\ \A k \in 1..Len(parseScratchpad(PadBody(PadSections[i]))) :
                    ~parseScratchpad(PadBody(PadSections[i]))[k].done

C2_Witness ==
    /\ last.op = "before_agent_start"
    /\ Len(PadSections) = 1
    /\ Len(OpenOnDisk) = 2
    /\ Len(ItemsOnDisk) = 3
    /\ OpenOnDisk[1].meta # <<>>

C2_WitnessAllDone ==
    /\ last.op = "before_agent_start"
    /\ Len(ItemsOnDisk) = 1
    /\ Len(OpenOnDisk) = 0
    /\ Len(PadSections) = 0
    /\ memoryContext # <<>>

FixedOrder ==
    contextFiles
    \o << LongTermTitle, ScratchpadTitle,
          DailyTitle(todayStr(day), "(today)"),
          DailyTitle(yesterdayStr(day), "(yesterday)") >>

\* C3: the section headings of the assembled context appear in the fixed
\* order: context files in configured order, long-term file, checklist,
\* today's log, yesterday's log; those present form a subsequence of it.
C3_SectionOrder ==
    AfterAssembly =>
        /\ IsSubsequence(HeadingTitles(memoryContext), FixedOrder)
        /\ Len(HeadingTitles(memoryContext)) = Len(sections)
        /\ \A i \in 1..Len(sections) :
              StartsWith(sections[i], H2 \o HeadingTitles(memoryContext)[i])

C3_Witness ==
    /\ last.op = "before_agent_start"
    /\ Len(contextFiles) = 2 /\ contextFiles[1] # contextFiles[2]
    /\ HeadingTitles(memoryContext) = FixedOrder

C3_WitnessPartial ==
    /\ last.op = "before_agent_start"
    /\ HeadingTitles(memoryContext) =
          << LongTermTitle, DailyTitle(yesterdayStr(day), "(yesterday)") >>

\* the number of sources that qualify on disk
QualifyingCount ==
    Cardinality({ k \in 1..Len(contextFiles) :
                    FileNonBlank(PathJoin(MEMORY_DIR, contextFiles[k])) })
    + (IF FileNonBlank(MEMORY_FILE) THEN 1 ELSE 0)
    + (IF Len(OpenOnDisk) > 0 THEN 1 ELSE 0)
    + (IF FileNonBlank(dailyPath(<< todayStr(day) >>)) THEN 1 ELSE 0)
    + (IF FileNonBlank(dailyPath(<< yesterdayStr(day) >>)) THEN 1 ELSE 0)

\* C4: the assembled context is empty iff no source qualifies; otherwise it
\* starts with the '# Memory' heading and holds one section per qualifying
\* source, consecutive sections joined by the '---' separator.
C4_EmptyOrAssembled ==
    AfterAssembly =>
        /\ (memoryContext = <<>>) <=> (QualifyingCount = 0)
        /\ Len(sections) = QualifyingCount
        /\ QualifyingCount > 0 =>
              /\ StartsWith(memoryContext, << "#", " ", "Memory" >>)
              /\ StartsWith(memoryContext, MemoryHeading \o sections[1])
              /\ EndsWith(memoryContext, sections[Len(sections)])
              /\ \A i \in 1..(Len(sections) - 1) :
                    Includes(memoryContext,
                             sections[i] \o SectionSeparator \o sections[i + 1])
              /\ Occurrences(memoryContext, SectionSeparator) = QualifyingCount - 1
              /\ Len(memoryContext) =
                    Len(MemoryHeading) + SumLen(sections)
                    + (QualifyingCount - 1) * Len(SectionSeparator)

C4_Witness ==
    /\ last.op = "before_agent_start"
    /\ QualifyingCount = 3
    /\ memoryContext # <<>>
    /\ \E p \in DOMAIN files : Trim(files[p]) = <<>>

C4_WitnessEmpty ==
    /\ last.op = "before_agent_start"
    /\ DOMAIN files # {}
    /\ QualifyingCount = 0
    /\ memoryContext = <<>>

FixedInstructionBlock == Join(MemoryInstructionLines, << NL >>) \o << NL >>

\* C5: the before_agent_start handler returns nothing exactly when the
\* assembled context is empty; otherwise its system prompt is the incoming
\* prompt, then the fixed instruction block, then the assembled context.
C5_Injection ==
    last.op = "before_agent_start" =>
        /\ last.returned <=> (memoryContext # <<>>)
        /\ last.returned <=> (QualifyingCount > 0)
        /\ ~last.returned => last.out = <<>>
        /\ last.returned =>
              /\ StartsWith(last.out, last.prompt)
              /\ EndsWith(last.out, memoryContext)
              /\ last.out = last.prompt \o FixedInstructionBlock \o memoryContext

C5_Witness ==
    /\ last.op = "before_agent_start"
    /\ last.returned
    /\ last.prompt # <<>>
    /\ Len(last.out) > Len(last.prompt) + Len(memoryContext)

C5_WitnessNothing ==
    /\ last.op = "before_agent_start"
    /\ ~last.returned
    /\ last.prompt # <<>>
    /\ DOMAIN files # {}

\* ------------------------------------------------------------------------
\* C6 - C10: tool calls
\* ------------------------------------------------------------------------
\* the first 8 characters of a session identifier
First8(sid) == [ i \in 1..(IF Len(sid) < 8 THEN Len(sid) ELSE 8) |-> sid[i] ]

IsBlank(s) == \A k \in 1..Len(s) : s[k] \in WhiteSpace

\* s without its trailing whitespace
WithoutTrailingSpace(s) ==
    LET n == IF \E k \in 1..Len(s) : s[k] \notin WhiteSpace
             THEN CHOOSE k \in 1..Len(s) :
                     /\ s[k] \notin WhiteSpace
                     /\ \A j \in (k + 1)..Len(s) : s[j] \in WhiteSpace
             ELSE 0
    IN  SubSeq(s, 1, n)

ContentOf(fs, p) == IF p \in DOMAIN fs THEN fs[p] ELSE <<>>

\* the injection is the assembler's output over the files now on disk
InjectionIsFresh ==
    /\ last.returned <=> (QualifyingCount > 0)
    /\ memoryContext = buildMemoryContext(files, dirs, contextFiles, day)
    /\ last.returned =>
          last.out = last.prompt \o FixedInstructionBlock \o memoryContext

NoChecklistInjected == Occurrences(last.out, H2 \o ScratchpadTitle) = 0

\* C6 as stated: the injection equals the assembler's output over the
\* current files; it contains every non-blank content appended to the
\* long-term file since that file's last overwrite; and it has no checklist
\* section when the last open item has just been marked done.
C6_AsStated ==
    last.op = "before_agent_start" =>
        /\ InjectionIsFresh
        /\ \A c \in appended : ~IsBlank(c) => Includes(last.out, c)
        /\ allDone => NoChecklistInjected

\* C6 amended: as above, except that an appended content is contained up to
\* its trailing whitespace (the assembler trims each file).
C6_Fresh ==
    last.op = "before_agent_start" =>
        /\ InjectionIsFresh
        /\ \A c \in appended :
              ~IsBlank(c) => /\ last.returned
                             /\ Includes(last.out, WithoutTrailingSpace(c))
        /\ allDone => NoChecklistInjected

C6_Witness ==
    /\ last.op = "before_agent_start"
    /\ calls = 2
    /\ \E c \in appended : ~IsBlank(c)
    /\ allDone
    /\ last.returned

C6_WitnessOverwritten ==
    /\ last.op = "before_agent_start"
    /\ calls = 2
    /\ appended = {} /\ journal = <<>>
    /\ StartsWith(ContentOf(files, MEMORY_FILE), CommentOpen \o << " ", "last" >>)

\* the file a memory_write call is meant to write
TargetFile(call, d) ==
    CASE call.target = "long_term" -> << "MEMORY.md" >>
      [] call.target = "daily" -> << "daily", DateStr(d) \o ".md" >>
      [] OTHER -> << "notes", call.filename.s[Len(call.filename.s)] >>

\* the stamped block of an append
StampedBlock(d, c, session, content) ==
    << "<", "!", "-", "-", " ", DateStr(d), " ", "10:00:0" \o ToString(c), " ", "[" >>
    \o First8(session)
    \o << "]", " ", "-", "-", ">", NL >> \o content

IsAppendCall(call) ==
    /\ call.op = "memory_write"
    /\ call.mode \in {"undefined", "append"}
    /\ call.target = "note" => ~Falsy(call.filename) /\ call.filename.s # << ".." >>

AppendEffect(call) ==
    LET p == TargetFile(call, day)
        old == ContentOf(files, p)
    IN  /\ ~call.threw
        /\ p \in DOMAIN files'
        /\ files'[p] = old \o (IF IsBlank(old) THEN <<>> ELSE << NL, NL >>)
                           \o StampedBlock(day, calls, sessionId, call.content)
        /\ \A q \in (DOMAIN files' \cup DOMAIN files) \ {p} :
              q \in DOMAIN files /\ q \in DOMAIN files' /\ files'[q] = files[q]

\* C7: a memory_write in append mode (also when no mode is given), for each
\* of the targets long_term, daily and note, keeps the previous content as an
\* unchanged prefix and adds a blank-line separator (only after non-blank
\* content), the stamp '<!-- ts [first 8 of session id] -->', a newline and
\* the new content.
C7_Append == [][ IsAppendCall(last') => AppendEffect(last') ]_vars

\* C7 restricted to the targets long_term and daily
C7_AppendLongTermDaily ==
    [][ (IsAppendCall(last') /\ last'.target # "note") => AppendEffect(last') ]_vars

C7_WitnessNote ==
    /\ last.op = "memory_write"
    /\ last.target = "note"
    /\ last.filename = Str(<< "n.md" >>)
    /\ last.mode = "undefined"
    /\ last.threw

C7_WitnessAppend ==
    /\ last.op = "memory_write"
    /\ last.target = "long_term"
    /\ last.mode = "undefined"
    /\ Len(sessionId) > 8
    /\ Includes(files[MEMORY_FILE], << "m", NL, NL, "<" >>)

\* C8: a memory_write with target daily never discards content of today's
\* daily log: for every requested mode, 'overwrite' included, the previous
\* content is a prefix of the new content and the reported mode is 'append'.
C8_DailyAppends ==
    [][ (last'.op = "memory_write" /\ last'.target = "daily") =>
            /\ ~last'.threw
            /\ last'.outMode = "append"
            /\ << "daily", DateStr(day) \o ".md" >> \in DOMAIN files'
            /\ StartsWith(files'[<< "daily", DateStr(day) \o ".md" >>],
                          ContentOf(files, << "daily", DateStr(day) \o ".md" >>))
            /\ Len(files'[<< "daily", DateStr(day) \o ".md" >>])
                  > Len(ContentOf(files, << "daily", DateStr(day) \o ".md" >>)) ]_vars

C8_Witness ==
    /\ last.op = "memory_write"
    /\ last.target = "daily"
    /\ last.mode = "overwrite"
    /\ last.outMode = "append"
    /\ StartsWith(files[<< "daily", DateStr(day) \o ".md" >>], << "d", NL, NL, NL >>)

\* a call that misses a field it requires
MissesRequiredField(call) ==
    \/ call.op = "memory_write" /\ call.target = "note" /\ Falsy(call.filename)
    \/ call.op = "memory_read" /\ call.target \in {"note", "file"}
                               /\ Falsy(call.filename)
    \/ call.op = "scratchpad" /\ call.action \in {"add", "done", "undo"}
                              /\ Falsy(call.text)

IsErrorMessage(text) == StartsWith(text, << "Error:" >>)

\* C9: every tool call that misses a required field returns a result whose
\* text is an error message, does not throw, and creates or modifies no
\* memory file.
C9_MissingField ==
    [][ MissesRequiredField(last') =>
            /\ ~last'.threw
            /\ IsErrorMessage(last'.out)
            /\ files' = files ]_vars

\* C9 for the calls other than memory_write
C9_MissingFieldReadPad ==
    [][ (MissesRequiredField(last') /\ last'.op # "memory_write") =>
            /\ ~last'.threw
            /\ IsErrorMessage(last'.out)
            /\ files' = files ]_vars

C9_WitnessWrite ==
    /\ last.op = "memory_write" /\ last.target = "note"
    /\ last.filename = Undefined
    /\ last.threw

C9_WitnessRead ==
    /\ last.op = "memory_read" /\ last.target = "note"
    /\ last.filename = Undefined
    /\ IsErrorMessage(last.out)

\* the last component of a file name
LastComponent(name) ==
    LET idx == { i \in 1..Len(name) :
                    /\ name[i] # "/"
                    /\ \A j \in (i + 1)..Len(name) : name[j] = "/" }
    IN  IF idx = {} THEN "" ELSE name[CHOOSE i \in idx : TRUE]

\* p is a file directly in the notes directory, named by the base name
NoteNamedBy(p, filename) ==
    /\ Len(p) = 2
    /\ p[1] = "notes"
    /\ p[2] \notin {"..", ".", "/", ""}
    /\ p[2] = LastComponent(filename.s)

IsNoteReadFailure(text) ==
    IsErrorMessage(text) \/ StartsWith(text, << "Note not found:" >>)

\* the files a step creates, modifies or removes
ChangedFiles ==
    { p \in DOMAIN files' \cup DOMAIN files :
        p \notin DOMAIN files \/ p \notin DOMAIN files' \/ files'[p] # files[p] }

C10_WitnessWrite ==
    /\ last.op = "memory_write" /\ last.target = "note"
    /\ last.filename = Str(<< "..", "/", "MEMORY.md" >>)
    /\ last.threw

\* ------------------------------------------------------------------------
\* Two process instances updating the files of one memory root
\* ------------------------------------------------------------------------
\* the updates two instances race on: memory_write long_term in append
\* mode, and scratchpad add
Updates ==
    [ op : {"append"}, path : { MEMORY_FILE }, text : Contents ]
    \cup [ op : {"add"}, path : { SCRATCHPAD_FILE }, text : { << "a" >>, << "B" >> } ]

\* the whole new content an update computes from the content it read
UpdateData(u, existing, ts, sid) ==
    IF u.op = "append"
    THEN Appended(existing, ts, sid, u.text)
    ELSE serializeScratchpad(Append(parseScratchpad(existing),
             [ done |-> FALSE, text |-> u.text, meta |-> Stamp(ts, sid) ]))

\* ensureDirs, then `readFileSafe(FILE) ?? ""`, in instance i; the new
\* content is computed from this read (execute has no await: within one
\* process nothing runs between its read and its write)
UpdateRead(i) ==
    /\ calls < MaxCalls
    /\ race[i].pc \in {"idle", "done"}
    /\ \E u \in Updates :
          LET existing == OrEmpty(readFileSafe(files, ensureDirs(dirs), u.path))
              session == IF i = 1 THEN sessionId ELSE << "p", "q", "r" >>
          IN  race' = [ race EXCEPT ![i] =
                          [ pc |-> "read", path |-> u.path, op |-> u.op,
                            text |-> u.text, existing |-> existing,
                            data |-> UpdateData(u, existing,
                                                nowTimestamp(day, calls),
                                                shortSessionId(session)) ] ]
    /\ dirs' = ensureDirs(dirs)
    /\ calls' = calls + 1
    /\ UNCHANGED << files, envVars, last, ctxVars, histVars, codecVars,
                    now, inst, cacheJson, req, logs, scan, collected >>

\* fs.writeFileSync, first half: the file is opened with flag 'w', which
\* creates or truncates it; another process can run before the data is
\* written
UpdateOpen(i) ==
    /\ race[i].pc = "read"
    /\ files' = writeFileSync(files, race[i].path, <<>>)
    /\ race' = [ race EXCEPT ![i].pc = "open" ]
    /\ UNCHANGED << dirs, envVars, calls, last, ctxVars, histVars, codecVars,
                    now, inst, cacheJson, req, logs, scan, collected >>

\* fs.writeFileSync, second half: the data is written from offset 0 of the
\* open file
UpdateWrite(i) ==
    /\ race[i].pc = "open"
    /\ LET current == files[race[i].path]
           data == race[i].data
       IN  files' = writeFileSync(files, race[i].path,
                       data \o SubSeq(current, Len(data) + 1, Len(current)))
    /\ race' = [ race EXCEPT ![i].pc = "done" ]
    /\ UNCHANGED << dirs, envVars, calls, last, ctxVars, histVars, codecVars,
                    now, inst, cacheJson, req, logs, scan, collected >>

SpecRace ==
    Init /\ [][\E i \in Instances : UpdateRead(i) \/ UpdateOpen(i) \/ UpdateWrite(i)]_vars

\* ------------------------------------------------------------------------
\* C11
\* ------------------------------------------------------------------------
\* both instances have completed one update of the same file
BothUpdated ==
    /\ race[1].pc = "done" /\ race[2].pc = "done"
    /\ race[1].path = race[2].path
    /\ calls = 2

\* C11: when two instances have each updated the same file, the file holds
\* the complete output of one of the two writes, never a mixture of both.
C11_NeverMixed ==
    BothUpdated => files[race[1].path] \in { race[1].data, race[2].data }

\* C11, first half: both instances read the old content before either
\* wrote, and the file holds only the block of one of them.
C11_LostUpdate ==
    /\ BothUpdated
    /\ race[1].op = "append" /\ race[2].op = "append"
    /\ race[1].existing = << "m" >> /\ race[2].existing = << "m" >>
    /\ race[1].text = << "z", " " >>
    /\ files[MEMORY_FILE] = race[2].data
    /\ ~Includes(files[MEMORY_FILE], << "z" >>)

C11_Mixed ==
    /\ BothUpdated
    /\ files[race[1].path] \notin { race[1].data, race[2].data }

\* ------------------------------------------------------------------------
\* The dashboard summary: in-memory cache, cache.json and the rebuild timer
\* ------------------------------------------------------------------------
\* REBUILD_INTERVAL_MS, 15 minutes, in ticks of five minutes
REBUILD_INTERVAL == 3

\* what buildSessionSummary() can return; the empty text when no recent
\* session is left after the housekeeping filter
Summaries == { <<>>, << "S1" >>, << "S2" >> }

\* getOrRebuildSummary up to its first await, in an instance whose module
\* state is me, at time t, with cache.json as disk: where the summary comes
\* from, and the module state it leaves
getOrRebuildSummary(me, disk, t) ==
    IF t - me.lastRebuildTime < REBUILD_INTERVAL /\ me.cachedSummary # <<>>
    THEN [ source |-> "memory", value |-> me.cachedSummary, me |-> me ]
    ELSE IF /\ me.cachedSummary = <<>>
            /\ disk.exists
            /\ disk.summary # <<>>
            /\ t - disk.timestamp < REBUILD_INTERVAL
    THEN [ source |-> "disk", value |-> disk.summary,
           me |-> [ me EXCEPT !.cachedSummary = disk.summary,
                              !.lastRebuildTime = disk.timestamp ] ]
    ELSE [ source |-> "rebuild", value |-> <<>>, me |-> me ]

\* showDashboard up to its first await, called by `kind` in instance i
ShowDashboard(i, kind, hasUI) ==
    LET r == getOrRebuildSummary(inst[i], cacheJson, now)
        building == hasUI /\ r.source = "rebuild"
        task == [ kind |-> kind, building |-> building,
                  at |-> IF building THEN now ELSE 0,
                  ui |-> hasUI,
                  summary |-> IF hasUI THEN r.value ELSE <<>> ]
    IN  /\ calls < MaxEvents
        /\ calls' = calls + 1
        /\ Cardinality(inst[i].tasks) < MaxTasks
        /\ inst' = [ inst EXCEPT ![i] =
                        [ (IF hasUI THEN r.me ELSE inst[i]) EXCEPT
                             !.tasks = @ \cup { task },
                             !.cleared = FALSE,
                             !.stopped = IF kind = "session_start" THEN FALSE ELSE @ ] ]
        /\ req' = IF hasUI
                  THEN [ op |-> "request", inst |-> i, at |-> now,
                         source |-> r.source, value |-> r.value,
                         cachedSummary |-> inst[i].cachedSummary,
                         lastRebuildTime |-> inst[i].lastRebuildTime,
                         disk |-> cacheJson,
                         adopted |-> r.me.lastRebuildTime ]
                  ELSE req
        /\ UNCHANGED << now, cacheJson >>

\* pi.on("session_start"), until `await showDashboard(ctx)` suspends it
SessionStart(i) ==
    /\ \E hasUI \in BOOLEAN : ShowDashboard(i, "session_start", hasUI)
    /\ UNCHANGED << diskVars, envVars, last, ctxVars, histVars, codecVars,
                    race, logs, scan, collected >>

\* pi.on("session_switch"), until `await showDashboard(ctx)` suspends it
SessionSwitch(i) ==
    /\ \E hasUI \in BOOLEAN : ShowDashboard(i, "session_switch", hasUI)
    /\ UNCHANGED << diskVars, envVars, last, ctxVars, histVars, codecVars,
                    race, logs, scan, collected >>

\* the setInterval callback, until `await buildSessionSummary()` suspends it
TimerFire(i) ==
    /\ inst[i].rebuildTimer
    /\ now >= inst[i].timerDue
    /\ Cardinality(inst[i].tasks) < MaxTasks
    /\ calls < MaxEvents
    /\ calls' = calls + 1
    /\ inst' = [ inst EXCEPT
                    ![i].tasks = @ \cup { [ kind |-> "timer", building |-> TRUE,
                                            at |-> 0, ui |-> FALSE,
                                            summary |-> <<>> ] },
                    ![i].timerDue = @ + REBUILD_INTERVAL ]
    /\ UNCHANGED << now, cacheJson, req >>
    /\ UNCHANGED << diskVars, envVars, last, ctxVars, histVars, codecVars,
                    race, logs, scan, collected >>

\* the lines of the checklist file that showDashboard lists: /^- \[ \]/ on
\* the lines of the trimmed content
OpenLines(fs, ds) ==
    LET content == readFileSafe(fs, ds, SCRATCHPAD_FILE)
        Open(l) == StartsWith(l, << "-", " ", "[", " ", "]" >>)
    IN  IF NonBlank(content)
        THEN SelectSeq(SplitLines(Trim(content.s)), Open)
        ELSE <<>>

\* showDashboard after `await getOrRebuildSummary()`: whether it reaches
\* ctx.ui.setWidget("memory-dashboard", ...)
SetsWidget(task, summary, fs, ds) ==
    /\ task.kind \in { "session_start", "session_switch" }
    /\ task.ui
    /\ summary # <<>> \/ OpenLines(fs, ds) # <<>>

\* a resumed handler calls setInterval whatever rebuildTimer holds
StartsTimerAlways(me, task) == task.kind = "session_start"

\* the session_start handler, after its await: `if (!rebuildTimer)`
StartsTimer(me, task) == task.kind = "session_start" /\ ~me.rebuildTimer

\* a suspended handler of instance i is resumed: buildSessionSummary()
\* resolves with s (if the handler awaits a rebuild), the cache is assigned
\* and persisted, and the handler runs to its end
Resume(i) ==
    /\ \E task \in inst[i].tasks, s \in Summaries :
          LET builtAt == IF task.kind = "timer" THEN now ELSE task.at
              cached == IF task.building
                        THEN [ inst[i] EXCEPT !.cachedSummary = s,
                                              !.lastRebuildTime = builtAt ]
                        ELSE inst[i]
              startsTimer == StartsTimer(inst[i], task)
              summary == IF task.building THEN s ELSE task.summary
          IN  /\ task.building \/ s = <<>>
              /\ inst' = [ inst EXCEPT ![i] =
                             [ cached EXCEPT
                                 !.tasks = @ \ { task },
                                 !.rebuildTimer = @ \/ startsTimer,
                                 !.intervals = IF startsTimer THEN @ + 1 ELSE @,
                                 !.ended = [ kind |-> task.kind,
                                             hadTimer |-> inst[i].rebuildTimer ],
                                 !.widget = @ \/ SetsWidget(task, summary, files, dirs),
                                 !.timerDue = IF startsTimer
                                              THEN now + REBUILD_INTERVAL ELSE @ ] ]
              /\ cacheJson' = IF task.building
                              THEN [ exists |-> TRUE, summary |-> s,
                                     timestamp |-> builtAt, by |-> i ]
                              ELSE cacheJson
    /\ UNCHANGED << now, req >>
    /\ UNCHANGED << diskVars, envVars, calls, last, ctxVars, histVars, codecVars,
                    race, logs, scan, collected >>

\* pi.on("session_shutdown")
SessionShutdown(i) ==
    /\ inst' = [ inst EXCEPT
                    ![i].rebuildTimer = FALSE, ![i].stopped = TRUE,
                    ![i].intervals = IF inst[i].rebuildTimer THEN @ - 1 ELSE @ ]
    /\ calls < MaxEvents
    /\ calls' = calls + 1
    /\ UNCHANGED << now, cacheJson, req >>
    /\ UNCHANGED << diskVars, envVars, last, ctxVars, histVars, codecVars,
                    race, logs, scan, collected >>

\* pi.on("agent_start"): ctx.ui.setWidget("memory-dashboard", undefined)
AgentStart(i) ==
    /\ calls < MaxEvents
    /\ calls' = calls + 1
    /\ inst' = [ inst EXCEPT ![i].widget = FALSE, ![i].cleared = TRUE ]
    /\ UNCHANGED << now, cacheJson, req >>
    /\ UNCHANGED << diskVars, envVars, last, ctxVars, histVars, codecVars,
                    race, logs, scan, collected >>

\* five minutes pass
Tick ==
    /\ now < MaxNow
    /\ now' = now + 1
    /\ UNCHANGED << inst, cacheJson, req >>
    /\ UNCHANGED << diskVars, envVars, calls, last, ctxVars, histVars, codecVars,
                    race, logs, scan, collected >>

\* the instances start long after the epoch of lastRebuildTime = 0, on a
\* root with no cache.json or with one another process left there
InitDash ==
    /\ day = 2 /\ files = << >> /\ dirs = RequiredDirs /\ contextFiles = <<>>
    /\ sessionId = << "a", "b", "c" >> /\ autocommit = [ env |-> Undefined, git |-> TRUE ]
    /\ calls = 0 /\ last = NoCall /\ sections = <<>> /\ memoryContext = <<>>
    /\ appended = {} /\ journal = <<>> /\ allDone = FALSE
    /\ CodecIdle
    /\ now = REBUILD_INTERVAL
    /\ inst = [ i \in Instances |-> InstanceLoaded ]
    /\ cacheJson \in { [ exists |-> FALSE ],
                       [ exists |-> TRUE, summary |-> << "S1" >>, timestamp |-> 1,
                         by |-> 0 ] }
    /\ req = [ op |-> "none" ]
    /\ race = [ i \in Instances |-> [ pc |-> "idle" ] ]
    /\ logs = << >> /\ scan = [ op |-> "none" ] /\ collected = [ op |-> "none" ]

SpecDash ==
    InitDash /\ [][ \/ \E i \in Instances :
                         \/ SessionStart(i)
                         \/ SessionSwitch(i)
                         \/ TimerFire(i)
                         \/ Resume(i)
                         \/ SessionShutdown(i)
                   \/ Tick ]_vars

\* ------------------------------------------------------------------------
\* C12 - C15
\* ------------------------------------------------------------------------
\* the last request found the in-memory cache younger than the interval
MemoryYoung == req.at - req.lastRebuildTime < REBUILD_INTERVAL

\* the last request found a cache.json younger than the interval
DiskYoung == req.disk.exists /\ req.at - req.disk.timestamp < REBUILD_INTERVAL

\* C12: a request made less than 15 minutes after the in-memory cache was
\* built returns the cached summary, whatever its value (the empty summary
\* included), and starts no rebuild (so no scan and no write of cache.json).
C12_ServedFromMemory ==
    (req.op = "request" /\ MemoryYoung) =>
        /\ req.source = "memory"
        /\ req.value = req.cachedSummary

\* C12 for the non-empty summaries
C12_NonEmptyServed ==
    (req.op = "request" /\ MemoryYoung /\ req.cachedSummary # <<>>) =>
        /\ req.source = "memory"
        /\ req.value = req.cachedSummary

\* an empty summary built less than 15 minutes ago is rebuilt
C12_EmptyRebuilt ==
    /\ req.op = "request" /\ MemoryYoung
    /\ req.lastRebuildTime >= REBUILD_INTERVAL
    /\ req.cachedSummary = <<>>
    /\ req.source = "rebuild"

\* C13: with an empty in-memory cache and a cache.json holding summary s
\* with timestamp t: if now - t is less than 15 minutes the request returns
\* s without a rebuild and the instance adopts t as its build time; if
\* now - t is 15 minutes or more a rebuild happens; and nothing is served
\* from memory once its build time is 15 minutes old.
C13_DiskCache ==
    /\ (req.op = "request" /\ req.cachedSummary = <<>> /\ req.disk.exists) =>
          IF DiskYoung
          THEN /\ req.source = "disk"
               /\ req.value = req.disk.summary
               /\ req.adopted = req.disk.timestamp
          ELSE req.source = "rebuild"
    /\ (req.op = "request" /\ req.source = "memory") => MemoryYoung

\* C13 for the non-empty summaries
C13_NonEmptyDiskCache ==
    /\ (req.op = "request" /\ req.cachedSummary = <<>> /\ req.disk.exists
        /\ req.disk.summary # <<>>) =>
          IF DiskYoung
          THEN /\ req.source = "disk"
               /\ req.value = req.disk.summary
               /\ req.adopted = req.disk.timestamp
          ELSE req.source = "rebuild"
    /\ (req.op = "request" /\ req.source = "memory") => MemoryYoung

\* a summary loaded from cache.json with its timestamp adopted
C13_Adopted ==
    /\ req.op = "request" /\ req.source = "disk"
    /\ req.disk.by # 0
    /\ req.adopted = req.disk.timestamp
    /\ req.adopted < req.at

\* an empty summary persisted less than 15 minutes ago is not used
C13_EmptyNotUsed ==
    /\ req.op = "request" /\ req.cachedSummary = <<>> /\ DiskYoung
    /\ req.disk.summary = <<>>
    /\ req.source = "rebuild"

\* C14: when another instance persisted a rebuilt summary to cache.json
\* less than 15 minutes ago, a request returns a summary without a rebuild
\* of its own, whatever this instance holds in memory.
C14_NoRedundantRebuild ==
    (req.op = "request" /\ DiskYoung /\ req.disk.by # req.inst) =>
        req.source # "rebuild"

\* a request rebuilds although another instance persisted a non-empty
\* summary less than 15 minutes ago: its own in-memory summary is old
C14_StaleMemoryRebuilds ==
    /\ req.op = "request" /\ DiskYoung
    /\ req.disk.by \in Instances \ { req.inst }
    /\ req.disk.summary # <<>>
    /\ req.cachedSummary # <<>>
    /\ req.source = "rebuild"

\* C15: once session_shutdown has run in an instance, and until a later
\* session_start is delivered to it, the instance has no rebuild timer.
C15_NoTimerAfterShutdown ==
    \A i \in Instances : inst[i].stopped => ~inst[i].rebuildTimer

\* a timer started after the shutdown by a session_start that was awaiting
\* its dashboard
C15_TimerLeaked ==
    \E i \in Instances :
        /\ inst[i].stopped
        /\ inst[i].rebuildTimer
        /\ inst[i].tasks = {}

\* the session_shutdown step itself leaves the instance without a timer
C15_ShutdownClears ==
    [][ \A i \in Instances :
           (~inst[i].stopped /\ inst'[i].stopped) => ~inst'[i].rebuildTimer ]_vars

\* ------------------------------------------------------------------------
\* The session scanner: scanSession and collectSessions
\* ------------------------------------------------------------------------
\* A session log is [readable, mtime, lines]; a line is what JSON.parse makes
\* of it: [json |-> "invalid"] (throws), [json |-> "null"] (every property
\* access throws) or an object with type, name, role, content and cost (the
\* value of message.usage.cost.total, 0 when absent); the first line also has
\* timestamp and parentSession.  Time is counted in ticks of five minutes.

\* LOOKBACK_MS, in ticks
LOOKBACK == 288

\* the length content.slice(0, 80) keeps
TitleLimit == 80

\* "(untitled)"
UNTITLED == << "(", "u", "n", "t", "i", "t", "l", "e", "d", ")" >>

\* header.timestamp && new Date(header.timestamp).getTime() < cutoffTime:
\* a missing or empty timestamp is falsy, one that is not a date gives NaN
TooOldAtOrBefore(header, t) ==
    /\ header.timestamp.is = "date"
    /\ header.timestamp.time <= t - LOOKBACK

TooOld(header, t) ==
    /\ header.timestamp.is = "date"
    /\ header.timestamp.time < t - LOOKBACK

\* the first pass over the lines after the header: totalCost
RECURSIVE TotalCostAnyRole(_)
TotalCostAnyRole(ls) ==
    IF ls = <<>> THEN 0
    ELSE LET entry == Head(ls) IN
         ( IF /\ entry.json = "object"
              /\ entry.type = "message"
              /\ entry.cost # 0
           THEN entry.cost ELSE 0 ) + TotalCostAnyRole(Tail(ls))

RECURSIVE TotalCost(_)
TotalCost(ls) ==
    IF ls = <<>> THEN 0
    ELSE LET entry == Head(ls) IN
         ( IF /\ entry.json = "object"
              /\ entry.type = "message" /\ entry.role = "assistant"
              /\ entry.cost # 0
           THEN entry.cost ELSE 0 ) + TotalCost(Tail(ls))

\* the body of scanSession's try block: [threw |-> TRUE] when an exception
\* leaves it, otherwise [threw |-> FALSE, value |-> null or the SessionInfo]
ScanLines(file, log, t) ==
    LET null == [ isNull |-> TRUE ]
        return(v) == [ threw |-> FALSE, value |-> v ]
        throw == [ threw |-> TRUE ]
        RECURSIVE Name(_, _)
        \* title = entry.name for every session_info entry with a truthy name
        Name(ls, title) ==
            IF ls = <<>> THEN title
            ELSE LET entry == Head(ls) IN
                 Name(Tail(ls),
                      IF /\ entry.json = "object"
                         /\ entry.type = "session_info" /\ entry.name # <<>>
                      THEN entry.name ELSE title)
        slice(text) == SubSeq(text, 1, IF Len(text) < TitleLimit THEN Len(text) ELSE TitleLimit)
        RECURSIVE FirstUser(_)
        \* the second pass, over every line of the file: an exception inside
        \* the try is caught and the loop continues with the next line
        FirstUser(ls) ==
            IF ls = <<>> THEN <<>>
            ELSE LET entry == Head(ls) IN
                 IF entry.json # "object" THEN FirstUser(Tail(ls))
                 ELSE IF entry.type = "message" /\ entry.role = "user"
                 THEN LET content == entry.content IN
                      IF content.is = "string" THEN slice(content.text)
                      ELSE IF content.is = "array"
                      THEN LET texts == SelectSeq(content.parts,
                                                  LAMBDA c : c.type = "text") IN
                           IF texts = <<>> THEN <<>>
                           ELSE IF "text" \in DOMAIN Head(texts)
                                THEN slice(Head(texts).text)
                                ELSE FirstUser(Tail(ls))
                      ELSE <<>>
                 ELSE FirstUser(Tail(ls))
    IN  IF ~log.readable THEN throw
        ELSE IF log.lines = <<>> THEN return(null)
        ELSE LET header == Head(log.lines)
                 rest == Tail(log.lines) IN
             IF header.json = "invalid" THEN return(null)
             ELSE IF header.json = "null" THEN throw
             ELSE IF TooOld(header, t) THEN return(null)
             ELSE IF header.timestamp.is \in { "absent", "empty" } THEN return(null)
             ELSE LET named == Name(rest, <<>>)
                      title == IF named = <<>> THEN FirstUser(log.lines) ELSE named
                  IN  return([ isNull |-> FALSE,
                               file |-> file,
                               timestamp |-> header.timestamp,
                               title |-> IF title = <<>> THEN UNTITLED ELSE title,
                               isChild |-> header.parentSession \notin { "absent", "" },
                               parentSession |->
                                   IF header.parentSession = "" THEN "absent"
                                   ELSE header.parentSession,
                               cost |-> TotalCost(rest) ])

\* scanSession: try { ... } catch { return null; }
scanSessionUncaught(file, log, t) ==
    ScanLines(file, log, t)

scanSession(file, log, t) ==
    LET r == ScanLines(file, log, t) IN
    IF r.threw THEN [ threw |-> FALSE, value |-> [ isNull |-> TRUE ] ] ELSE r

\* collectSessions, over the listed logs in directory order
collectSessionsRootsOnly(ls, t) ==
    LET recentFiles == { f \in DOMAIN ls : ls[f].mtime >= t - LOOKBACK }
        results == [ f \in recentFiles |-> scanSession(f, ls[f], t).value ]
        sessions == { f \in recentFiles : ~results[f].isNull }
        roots == { f \in sessions : ~results[f].isChild }
        children == { f \in sessions : results[f].isChild }
        parents == { results[f].parentSession : f \in children }
        RECURSIVE reduce(_)
        reduce(fs) == IF fs = {} THEN 0
                      ELSE LET f == CHOOSE g \in fs : \A h \in fs : g <= h
                           IN  results[f].cost + reduce(fs \ { f })
    IN  [ roots |-> [ f \in roots |-> results[f] ],
          childCountMap |->
              [ p \in parents |->
                  Cardinality({ f \in children : results[f].parentSession = p }) ],
          totalCost |-> reduce(roots) ]

collectSessions(ls, t) ==
    LET recentFiles == { f \in DOMAIN ls : ls[f].mtime >= t - LOOKBACK }
        results == [ f \in recentFiles |-> scanSession(f, ls[f], t).value ]
        sessions == { f \in recentFiles : ~results[f].isNull }
        roots == { f \in sessions : ~results[f].isChild }
        children == { f \in sessions : results[f].isChild }
        parents == { results[f].parentSession : f \in children }
        RECURSIVE reduce(_)
        reduce(fs) == IF fs = {} THEN 0
                      ELSE LET f == CHOOSE g \in fs : \A h \in fs : g <= h
                           IN  results[f].cost + reduce(fs \ { f })
    IN  [ roots |-> [ f \in roots |-> results[f] ],
          childCountMap |->
              [ p \in parents |->
                  Cardinality({ f \in children : results[f].parentSession = p }) ],
          totalCost |-> reduce(sessions) ]

\* one call of scanSession on a listed log
ScanSession(f) ==
    /\ scan.op = "none" /\ collected.op = "none"
    /\ scan' = [ op |-> "scan", file |-> f, result |-> scanSession(f, logs[f], now) ]
    /\ UNCHANGED << files, dirs, day, contextFiles, sessionId, autocommit, calls,
                    last, sections, memoryContext, appended, allDone, journal, codecVars,
                    now, inst, cacheJson, req, race, logs, collected >>

\* one call of collectSessions
CollectSessions ==
    /\ scan.op = "none" /\ collected.op = "none"
    /\ collected' = [ op |-> "collect", result |-> collectSessions(logs, now) ]
    /\ UNCHANGED << files, dirs, day, contextFiles, sessionId, autocommit, calls,
                    last, sections, memoryContext, appended, allDone, journal, codecVars,
                    now, inst, cacheJson, req, race, logs, scan >>

\* the sessions directory holds either one log with any header and up to
\* MaxLines lines of any kind after it, or MaxFiles logs of plain sessions
InitScan ==
    LET Texts == { <<>>, << "h", "i" >>, [ i \in 1..(TitleLimit + 1) |-> "x" ] }
        entry(type, name, role, content, cost) ==
            [ json |-> "object", type |-> type, name |-> name, role |-> role,
              content |-> content, cost |-> cost ]
        noContent == [ is |-> "other" ]
        image == [ type |-> "image" ]
        Contents2 ==
            { [ is |-> "string", text |-> x ] : x \in Texts }
            \cup { [ is |-> "array", parts |-> ps ] :
                     ps \in { << image >>,
                              << image, [ type |-> "text", text |-> << "h", "i" >> ] >>,
                              << [ type |-> "text" ], [ type |-> "text", text |-> << "n", "o" >> ] >> } }
            \cup { noContent }
        Entries ==
            { [ json |-> "invalid" ], [ json |-> "null" ] }
            \cup { entry("session_info", n, "", noContent, 0) :
                     n \in { <<>>, << "A" >>, << "B" >> } }
            \cup { entry("message", <<>>, "user", c, 1) : c \in Contents2 }
            \cup { entry("message", <<>>, "assistant", noContent, k) : k \in 0..2 }
        Lines == UNION { [ 1..n -> Entries ] : n \in 0..MaxLines }
        stamp(x) == [ is |-> "date", time |-> x ]
        header(e, ts, parent) ==
            [ json |-> "object", type |-> e.type, name |-> e.name, role |-> e.role,
              content |-> e.content, cost |-> e.cost,
              timestamp |-> ts, parentSession |-> parent ]
        session == entry("session", <<>>, "", noContent, 0)
        cutoff == now - LOOKBACK
        Headers ==
            { [ json |-> "invalid" ], [ json |-> "null" ] }
            \cup { header(session, ts, "absent") :
                     ts \in { [ is |-> "absent" ], [ is |-> "empty" ], [ is |-> "invalid" ],
                              stamp(cutoff - 1), stamp(cutoff), stamp(now) } }
            \cup { header(session, stamp(now), "f1") }
            \cup { header(e, stamp(now), "absent") :
                     e \in { entry("session_info", << "B" >>, "", noContent, 0),
                             entry("message", <<>>, "assistant", noContent, 2),
                             entry("message", <<>>, "user",
                                   [ is |-> "string", text |-> << "y", "o" >> ], 0) } }
        PlainHeaders ==
            { [ json |-> "invalid" ], header(session, stamp(cutoff - 1), "absent") }
            \cup { header(session, stamp(now), p) : p \in { "absent", "", "f1", "gone" } }
            \cup { header(session, stamp(now - 1), "absent") }
        PlainLines ==
            { <<>>,
              << entry("message", <<>>, "assistant", noContent, 1) >>,
              << entry("session_info", << "A" >>, "", noContent, 0),
                 entry("message", <<>>, "assistant", noContent, 2) >>,
              << entry("session_info", << "/", "r" >>, "", noContent, 0) >> }
    IN  /\ day = 2 /\ files = << >> /\ dirs = RequiredDirs /\ contextFiles = <<>>
        /\ sessionId = << "a", "b", "c" >> /\ autocommit = [ env |-> Undefined, git |-> TRUE ]
        /\ calls = 0 /\ last = NoCall /\ sections = <<>> /\ memoryContext = <<>>
        /\ appended = {} /\ journal = <<>> /\ allDone = FALSE
        /\ CodecIdle
        /\ now = LOOKBACK + 2
        /\ inst = [ i \in Instances |-> InstanceLoaded ]
        /\ cacheJson = [ exists |-> FALSE ]
        /\ req = [ op |-> "none" ]
        /\ race = [ i \in Instances |-> [ pc |-> "idle" ] ]
        /\ scan = [ op |-> "none" ] /\ collected = [ op |-> "none" ]
        /\ \/ /\ logs \in { << [ readable |-> FALSE, mtime |-> now, lines |-> <<>> ] >> }
           \/ \E h \in Headers, ls \in Lines :
                 logs = << [ readable |-> TRUE, mtime |-> now, lines |-> << h >> \o ls ] >>
           \/ logs = << [ readable |-> TRUE, mtime |-> now, lines |-> <<>> ] >>
           \/ logs \in [ 1..MaxFiles ->
                          { [ readable |-> TRUE, mtime |-> now, lines |-> << h >> \o ls ] :
                              h \in PlainHeaders, ls \in PlainLines }
                          \cup { [ readable |-> TRUE, mtime |-> now - LOOKBACK - 1,
                                   lines |-> << header(session, stamp(now), "absent"),
                                                entry("message", <<>>, "assistant",
                                                      noContent, 1) >> ] } ]

SpecScan ==
    InitScan /\ [][ (\E f \in DOMAIN logs : ScanSession(f)) \/ CollectSessions ]_vars

\* ------------------------------------------------------------------------
\* C16 - C20
\* ------------------------------------------------------------------------
\* the log the last scanSession call read, and what the call returned
ScannedLog == logs[scan.file]
ScanValue == scan.result.value

\* the scanned log has a first line that parses to an object
HasHeader ==
    /\ scan.op = "scan"
    /\ ScannedLog.readable
    /\ ScannedLog.lines # <<>>
    /\ Head(ScannedLog.lines).json = "object"

\* the header's timestamp is a date
HasDate == HasHeader /\ Head(ScannedLog.lines).timestamp.is = "date"

IsObject(e) == e.json = "object"

\* C16: scanSession returns null for every log whose header timestamp is
\* earlier than now minus 24 hours, whatever the other lines hold, and
\* returns a session for every log whose header timestamp is at or after it.
C16_Cutoff ==
    HasDate =>
        ( ScanValue.isNull
          <=> Head(ScannedLog.lines).timestamp.time < now - LOOKBACK )

\* a log one tick older than the cutoff, with a name and a cost after the
\* header, is rejected
C16_Witness ==
    /\ HasDate
    /\ Head(ScannedLog.lines).timestamp.time = now - LOOKBACK - 1
    /\ Len(ScannedLog.lines) = 3
    /\ IsObject(ScannedLog.lines[2]) /\ ScannedLog.lines[2].name # <<>>
    /\ IsObject(ScannedLog.lines[3]) /\ ScannedLog.lines[3].cost = 2
    /\ ScanValue.isNull

\* a log exactly at the cutoff is kept
C16_WitnessAtCutoff ==
    /\ HasDate
    /\ Head(ScannedLog.lines).timestamp.time = now - LOOKBACK
    /\ ~ScanValue.isNull

\* the log without the lines after the header that do not parse
WithoutInvalid(log) ==
    [ log EXCEPT !.lines =
        << Head(log.lines) >>
        \o SelectSeq(Tail(log.lines), LAMBDA e : e.json # "invalid") ]

\* C17: scanSession never throws; an unreadable or empty file, a first
\* line that does not parse and a header without timestamp give null; a
\* later line that does not parse is skipped, the lines after it counting
\* as if the malformed line were not there.
C17_NeverThrows ==
    scan.op = "scan" =>
        /\ ~scan.result.threw
        /\ ( \/ ~ScannedLog.readable
             \/ ScannedLog.lines = <<>>
             \/ Head(ScannedLog.lines).json = "invalid"
             \/ /\ IsObject(Head(ScannedLog.lines))
                /\ Head(ScannedLog.lines).timestamp.is \in { "absent", "empty" } )
           => ScanValue.isNull
        /\ HasHeader =>
              ScanValue = scanSession(scan.file, WithoutInvalid(ScannedLog), now).value

\* a name and a cost that follow an unparsable line are counted
C17_Witness ==
    /\ HasHeader
    /\ Len(ScannedLog.lines) = 3
    /\ ScannedLog.lines[2].json = "invalid"
    /\ IsObject(ScannedLog.lines[3]) /\ ScannedLog.lines[3].role = "assistant"
    /\ ~ScanValue.isNull
    /\ ScanValue.cost = 2

\* an unreadable file gives null
C17_WitnessUnreadable ==
    /\ scan.op = "scan"
    /\ ~ScannedLog.readable
    /\ ~scan.result.threw
    /\ ScanValue.isNull

\* the positions of the lines that carry a session name, after the header
NamedAt(lines) ==
    { i \in 2..Len(lines) :
        IsObject(lines[i]) /\ lines[i].type = "session_info" /\ lines[i].name # <<>> }

\* the positions of the user-authored messages
UserAt(lines) ==
    { i \in 1..Len(lines) :
        IsObject(lines[i]) /\ lines[i].type = "message" /\ lines[i].role = "user" }

\* the text of a message: a string payload, or the first text-typed part of
\* a list payload; empty when there is none
TextOf(content) ==
    IF content.is = "string" THEN content.text
    ELSE IF content.is = "array"
    THEN LET at == { i \in DOMAIN content.parts : content.parts[i].type = "text" } IN
         IF at = {} THEN <<>>
         ELSE LET part == content.parts[CHOOSE i \in at : \A j \in at : i <= j] IN
              IF "text" \in DOMAIN part THEN part.text ELSE <<>>
    ELSE <<>>

\* the title the claim describes
ClaimedTitle(lines) ==
    IF NamedAt(lines) # {}
    THEN lines[CHOOSE i \in NamedAt(lines) : \A j \in NamedAt(lines) : j <= i].name
    ELSE IF UserAt(lines) = {} THEN UNTITLED
    ELSE LET text == TextOf(lines[CHOOSE i \in UserAt(lines) :
                                     \A j \in UserAt(lines) : i <= j].content) IN
         IF text = <<>> THEN UNTITLED
         ELSE IF Len(text) <= TitleLimit THEN text ELSE SubSeq(text, 1, TitleLimit)

\* a user message whose first text-typed part carries no text
TextMissing(e) ==
    /\ IsObject(e) /\ e.type = "message" /\ e.role = "user"
    /\ e.content.is = "array"
    /\ \E i \in DOMAIN e.content.parts :
          /\ e.content.parts[i].type = "text"
          /\ "text" \notin DOMAIN e.content.parts[i]

\* C18: the title is the name of the last session_info entry with a
\* non-empty name after the header; without one, the text of the first user
\* message cut to 80 characters; "(untitled)" when there is no user message
\* or that text is empty.
C18_Title ==
    (HasHeader /\ ~ScanValue.isNull) =>
        ScanValue.title = ClaimedTitle(ScannedLog.lines)

\* C18 for the logs in which every text-typed part carries a text
C18_TitleTextPresent ==
    ( /\ HasHeader /\ ~ScanValue.isNull
      /\ \A i \in DOMAIN ScannedLog.lines : ~TextMissing(ScannedLog.lines[i]) ) =>
        ScanValue.title = ClaimedTitle(ScannedLog.lines)

\* the first user message has a text part without text: the title is taken
\* from the second user message
C18_SecondMessageUsed ==
    /\ HasHeader /\ ~ScanValue.isNull
    /\ Len(ScannedLog.lines) = 3
    /\ TextMissing(ScannedLog.lines[2])
    /\ IsObject(ScannedLog.lines[3]) /\ ScannedLog.lines[3].role = "user"
    /\ ScanValue.title = << "h", "i" >>

\* a session name wins over a user message before it, and a long text is cut
C18_WitnessName ==
    /\ HasHeader /\ ~ScanValue.isNull
    /\ Len(ScannedLog.lines) = 3
    /\ IsObject(ScannedLog.lines[2]) /\ ScannedLog.lines[2].role = "user"
    /\ ScanValue.title = << "A" >>

C18_WitnessCut ==
    /\ HasHeader /\ ~ScanValue.isNull
    /\ Len(ScanValue.title) = TitleLimit
    /\ Len(ScannedLog.lines) >= 2 /\ IsObject(ScannedLog.lines[2])
    /\ Len(TextOf(ScannedLog.lines[2].content)) > TitleLimit

\* the sum of a cost over a set of positions
RECURSIVE SumOver(_, _)
SumOver(S, cost) ==
    IF S = {} THEN 0
    ELSE LET x == CHOOSE y \in S : TRUE IN cost[x] + SumOver(S \ { x }, cost)

\* C19: the cost of a scanned session is the sum of the total costs of the
\* assistant-authored message entries after the header; user messages,
\* other entries and unparsable lines add nothing; 0 when there is none.
C19_Cost ==
    (HasHeader /\ ~ScanValue.isNull) =>
        LET lines == ScannedLog.lines
            at == { i \in 2..Len(lines) :
                      /\ IsObject(lines[i])
                      /\ lines[i].type = "message" /\ lines[i].role = "assistant" }
            costAt == [ i \in at |-> lines[i].cost ]
        IN  ScanValue.cost = SumOver(at, costAt)

\* a user message with a cost and an assistant message: only the second counts
C19_Witness ==
    /\ HasHeader /\ ~ScanValue.isNull
    /\ Len(ScannedLog.lines) = 3
    /\ IsObject(ScannedLog.lines[2]) /\ IsObject(ScannedLog.lines[3])
    /\ ScannedLog.lines[2].role = "user" /\ ScannedLog.lines[2].cost = 1
    /\ ScannedLog.lines[3].role = "assistant" /\ ScannedLog.lines[3].cost = 2
    /\ ScanValue.cost = 2

\* two assistant messages are added up; a cost on the header is not
C19_WitnessSum ==
    /\ HasHeader /\ ~ScanValue.isNull
    /\ Head(ScannedLog.lines).cost = 2
    /\ Len(ScannedLog.lines) = 3
    /\ ScanValue.cost = 3

\* the listed logs that collectSessions scanned with success
Scanned ==
    { f \in DOMAIN logs :
        /\ logs[f].mtime >= now - LOOKBACK
        /\ ~scanSession(f, logs[f], now).value.isNull }

\* C20: collectSessions splits the scanned sessions into roots (no parent
\* reference) and children (non-empty parent reference); the child counts
\* add up to the number of children; totalCost is the sum of the costs of
\* all roots and children, housekeeping roots included.
C20_Partition ==
    collected.op = "collect" =>
        LET r == collected.result
            roots == DOMAIN r.roots
            costOf == [ f \in Scanned |-> scanSession(f, logs[f], now).value.cost ]
        IN  /\ roots \subseteq Scanned
            /\ \A f \in Scanned :
                  f \in roots <=> Head(logs[f].lines).parentSession \in { "absent", "" }
            /\ \A f \in roots : r.roots[f] = scanSession(f, logs[f], now).value
            /\ SumOver(DOMAIN r.childCountMap, r.childCountMap) = Cardinality(Scanned \ roots)
            /\ r.totalCost = SumOver(Scanned, costOf)

\* an untitled (housekeeping) root and a child, both with a cost
C20_Witness ==
    /\ collected.op = "collect"
    /\ \E f \in DOMAIN collected.result.roots :
          /\ collected.result.roots[f].title = UNTITLED
          /\ collected.result.roots[f].cost = 1
    /\ DOMAIN collected.result.childCountMap = { "f1" }
    /\ collected.result.totalCost = 3

\* ------------------------------------------------------------------------
\* The dashboard summary text: isHousekeeping, summarizeWithLLM and
\* buildSessionSummary
\* ------------------------------------------------------------------------
\* isHousekeeping(title): one of the six patterns matches the lower-cased
\* title from its start
isHousekeepingNever(title) == FALSE

isHousekeeping(title) ==
    LET lower == toLowerCase(title)
        Word == { "a", "b", "c", "d", "e", "f", "g", "h", "i", "j", "k", "l", "m",
                  "n", "o", "p", "q", "r", "s", "t", "u", "v", "w", "x", "y", "z",
                  "A", "B", "C", "X", "0", "1", "2", "_" }
        RECURSIVE Spaces(_)
        \* the text after a run of white space
        Spaces(x) == IF x # <<>> /\ Head(x) \in WhiteSpace THEN Spaces(Tail(x)) ELSE x
        \* ^first\s+second
        Two(first, second) ==
            \E a \in first :
                /\ StartsWith(lower, a)
                /\ LET after == SubSeq(lower, Len(a) + 1, Len(lower)) IN
                   /\ after # <<>> /\ Head(after) \in WhiteSpace
                   /\ \E b \in second : StartsWith(Spaces(after), b)
        clear == << "c", "l", "e", "a", "r" >>
        review == << "r", "e", "v", "i", "e", "w" >>
        read == << "r", "e", "a", "d" >>
        done == << "d", "o", "n", "e" >>
        pad == << "s", "c", "r", "a", "t", "c", "h", "p", "a", "d" >>
        today == << "t", "o", "d", "a", "y" >>
        daily == << "d", "a", "i", "l", "y" >>
        reviewed == review \o << "e", "d" >>
    IN  \/ Two({ clear, review, read }, { done, pad, today, daily })
        \/ Two({ << "-" >> },
               { << "n", "o", " " >> \o done, pad, clear \o << "e", "d" >>, reviewed,
                 << "t", "a", "s", "k", " ", "i", "s" >> })
        \/ Two({ pad },
               { << "c", "o", "n", "t", "e", "n", "t" >>,
                 << "m", "a", "n", "a", "g", "e", "m", "e", "n", "t" >>,
                 << "m", "a", "i", "n", "t", "e", "n", "a", "n", "c", "e" >>,
                 reviewed, << "i", "t", "e", "m", "s" >> })
        \/ lower = UNTITLED
        \/ /\ Len(lower) >= 2 /\ Head(lower) = "/"
           /\ \A i \in 2..Len(lower) : lower[i] \in Word
        \/ StartsWith(lower, << "w", "r", "i", "t", "e", " " >> \o daily
                             \o << " ", "l", "o", "g" >>)

\* summarizeWithLLM: [threw |-> TRUE] when completeSimple rejects, otherwise
\* the trimmed text, "" without a registry or a model with a credential
summarizeWithLLMIgnoresKey(sessions, llm) ==
    IF llm = "throws" THEN [ threw |-> TRUE ]
    ELSE [ threw |-> FALSE, text |-> << [ line |-> "llm", about |-> Len(sessions) ] >> ]

summarizeWithLLM(sessions, llm) ==
    IF llm \in { "no registry", "no key", "empty" } THEN [ threw |-> FALSE, text |-> <<>> ]
    ELSE IF llm = "throws" THEN [ threw |-> TRUE ]
    ELSE [ threw |-> FALSE, text |-> << [ line |-> "llm", about |-> Len(sessions) ] >> ]

\* buildSessionSummary: the lines of the returned text (none for ""), and
\* the sessions handed to summarizeWithLLM.  Session timestamps are the ISO
\* strings of toISOString, so localeCompare orders them by time.
buildSessionSummary(ls, t, llm) ==
    LET FileName(f) == CASE f = 1 -> "f1" [] f = 2 -> "f2" [] OTHER -> "f3"
        \* sessions.filter(!isHousekeeping).sort(by timestamp), stable
        Sorted(roots) ==
            LET kept == { f \in DOMAIN roots : ~isHousekeeping(roots[f].title) }
                before(f, g) ==
                    \/ roots[f].timestamp.time < roots[g].timestamp.time
                    \/ roots[f].timestamp.time = roots[g].timestamp.time /\ f < g
                RECURSIVE sort(_)
                sort(fs) ==
                    IF fs = {} THEN <<>>
                    ELSE LET f == CHOOSE g \in fs : \A h \in fs \ { g } : before(g, h)
                         IN  << roots[f] >> \o sort(fs \ { f })
            IN  sort(kept)
        childCount(c, s) == IF FileName(s.file) \in DOMAIN c.childCountMap
                            THEN c.childCountMap[FileName(s.file)] ELSE 0
        bullet(c, s) == [ line |-> "bullet", title |-> s.title,
                          tagged |-> childCount(c, s) > 0, count |-> childCount(c, s) ]
        \* the text, given the header and the collaborator's answer
        Text(c, sorted, header, llmText) ==
            IF ~llmText.threw /\ llmText.text # <<>>
            THEN << header, [ line |-> "blank" ] >> \o llmText.text
            ELSE << header, [ line |-> "blank" ] >>
                 \o [ i \in 1..Len(sorted) |-> bullet(c, sorted[i]) ]
        Built(c, sorted) ==
            IF DOMAIN c.roots = {} \/ sorted = <<>>
            THEN [ summary |-> <<>>, asked |-> FALSE, listing |-> <<>> ]
            ELSE [ summary |-> Text(c, sorted,
                                    [ line |-> "header", count |-> Len(sorted),
                                      cost |-> c.totalCost ],
                                    summarizeWithLLM(sorted, llm)),
                   asked |-> TRUE, listing |-> sorted ]
        From(c) == Built(c, Sorted(c.roots))
    IN  From(collectSessions(ls, t))

\* one rebuild of the summary; the text-generation collaborator has no
\* registry, has no model with a credential, throws, or returns a text
BuildSessionSummary ==
    /\ scan.op = "none" /\ collected.op = "none"
    /\ \E llm \in { "no registry", "no key", "throws", "empty", "text" } :
          collected' = [ op |-> "summary", llm |-> llm,
                         result |-> buildSessionSummary(logs, now, llm) ]
    /\ UNCHANGED << files, dirs, day, contextFiles, sessionId, autocommit, calls,
                    last, sections, memoryContext, appended, allDone, journal, codecVars,
                    now, inst, cacheJson, req, race, logs, scan >>

SpecSummary == InitScan /\ [][BuildSessionSummary]_vars

\* ------------------------------------------------------------------------
\* C21 - C22
\* ------------------------------------------------------------------------
\* the titles of the logs that are housekeeping noise: "(untitled)" and a
\* bare slash command
NoiseTitles == { UNTITLED, << "/", "r" >> }

\* the scanned root sessions whose title is not noise
ListedRoots ==
    { f \in Scanned :
        /\ Head(logs[f].lines).parentSession \in { "absent", "" }
        /\ scanSession(f, logs[f], now).value.title \notin NoiseTitles }

\* the path a child's header gives for its parent log
PathOf(f) == CASE f = 1 -> "f1" [] f = 2 -> "f2" [] OTHER -> "f3"

\* the scanned sessions that name log f as their parent
ChildrenOf(f) ==
    { g \in Scanned : Head(logs[g].lines).parentSession = PathOf(f) }

\* C21: buildSessionSummary returns "" exactly when no root session with a
\* non-housekeeping title was collected; otherwise the sessions it lists
\* are exactly those roots, oldest first, and the count of its header line
\* is the number of listed sessions.
C21_Summary ==
    collected.op = "summary" =>
        LET r == collected.result IN
        /\ r.summary = <<>> <=> ListedRoots = {}
        /\ ListedRoots # {} =>
              /\ { r.listing[i].file : i \in DOMAIN r.listing } = ListedRoots
              /\ Len(r.listing) = Cardinality(ListedRoots)
              /\ \A i, j \in DOMAIN r.listing :
                    i < j => r.listing[i].timestamp.time <= r.listing[j].timestamp.time
              /\ r.summary[1].line = "header"
              /\ r.summary[1].count = Len(r.listing)

\* two roots listed against the directory order, the older one first
C21_Witness ==
    /\ collected.op = "summary"
    /\ Len(collected.result.listing) = 2
    /\ collected.result.listing[1].file = 2
    /\ collected.result.listing[1].timestamp.time < collected.result.listing[2].timestamp.time
    /\ collected.result.summary[1].count = 2

\* only housekeeping roots: the summary is empty
C21_WitnessNoise ==
    /\ collected.op = "summary"
    /\ Cardinality(Scanned) = 2
    /\ \A f \in Scanned : Head(logs[f].lines).parentSession = "absent"
    /\ collected.result.summary = <<>>

\* the time of the header timestamp of log f
StartedAt(f) == Head(logs[f].lines).timestamp.time

\* C22: when the text-generation collaborator is unavailable, throws or
\* returns empty text, buildSessionSummary returns the fallback: the header
\* line, a blank line and one bullet per non-housekeeping root, oldest
\* first, with the child count on a bullet exactly when it is not zero.
C22_Fallback ==
    ( /\ collected.op = "summary"
      /\ collected.llm \in { "no registry", "no key", "throws", "empty" }
      /\ ListedRoots # {} ) =>
        LET r == collected.result
            n == Cardinality(ListedRoots)
        IN  /\ Len(r.summary) = n + 2
            /\ r.summary[1].line = "header" /\ r.summary[1].count = n
            /\ r.summary[2].line = "blank"
            /\ \A i \in 1..n :
                  LET b == r.summary[i + 2] IN
                  /\ b.line = "bullet"
                  /\ \E f \in ListedRoots :
                        /\ b.title = scanSession(f, logs[f], now).value.title
                        /\ b.tagged <=> ChildrenOf(f) # {}
                        /\ b.tagged => b.count = Cardinality(ChildrenOf(f))
                        /\ Cardinality({ g \in ListedRoots \ { f } :
                              \/ StartedAt(g) < StartedAt(f)
                              \/ StartedAt(g) = StartedAt(f) /\ g < f }) = i - 1

\* the collaborator throws: one bullet, annotated with its one child
C22_Witness ==
    /\ collected.op = "summary"
    /\ collected.llm = "throws"
    /\ Len(collected.result.summary) = 3
    /\ collected.result.summary[3].line = "bullet"
    /\ collected.result.summary[3].tagged
    /\ collected.result.summary[3].count = 1

\* without a credential: two bullets without annotation
C22_WitnessNoKey ==
    /\ collected.op = "summary"
    /\ collected.llm = "no key"
    /\ Len(collected.result.summary) = 4
    /\ ~collected.result.summary[3].tagged

\* ------------------------------------------------------------------------
\* memory_search: searchMemory
\* ------------------------------------------------------------------------
\* max_results ?? 20
DefaultLimit == 20

\* the lower-cased characters of the display name `${prefix}/${f}` (f alone
\* in the memory root) of a file the model's directories can hold
DisplayName(prefix, f) ==
    LET md == << ".", "m", "d" >>
        name ==
            CASE f = "AGENTS.md" -> << "a", "g", "e", "n", "t", "s" >> \o md
              [] f = "MEMORY.md" -> << "m", "e", "m", "o", "r", "y" >> \o md
              [] f = "SCRATCHPAD.md" ->
                    << "s", "c", "r", "a", "t", "c", "h", "p", "a", "d" >> \o md
              [] f = "SOUL.md" -> << "s", "o", "u", "l" >> \o md
              [] f = "n.md" -> << "n" >> \o md
              [] OTHER ->
                    LET d == CHOOSE x \in 0..9 : f = DateStr(x) \o ".md" IN
                    << "2", "0", "2", "6", "-", "0", "2", "-", "1", ToString(d) >> \o md
        dir == CASE prefix = "daily" -> << "d", "a", "i", "l", "y", "/" >>
                 [] prefix = "notes" -> << "n", "o", "t", "e", "s", "/" >>
                 [] OTHER -> <<>>
    IN  dir \o name

\* searchMemory(config, query, maxResults): the file matches, the line
\* results and the files whose content was read, in visiting order
searchMemoryAllLines(fs, ds, maxDay, query, maxResults) ==
    LET needle == toLowerCase(query)
        visit(dir, prefix) ==
            LET names == Listing(fs, dir, FALSE, maxDay) IN
            [ i \in 1..Len(names) |->
                [ path |-> PathJoin(dir, << names[i] >>), prefix |-> prefix,
                  name |-> names[i] ] ]
        order == visit(MEMORY_DIR, "") \o visit(DAILY_DIR, "daily")
                 \o visit(NOTES_DIR, "notes")
        RECURSIVE matches(_, _, _, _)
        matches(f, lines, i, found) ==
            IF i > Len(lines) THEN found
            ELSE matches(f, lines, i + 1,
                         IF Includes(toLowerCase(lines[i]), needle) \/ needle = <<>>
                         THEN Append(found, [ file |-> << f.prefix, f.name >>,
                                              line |-> i, text |-> TrimEnd(lines[i]) ])
                         ELSE found)
        searchFile(f, acc) ==
            LET content == readFileSafe(fs, ds, f.path)
                named == Includes(DisplayName(f.prefix, f.name), needle) \/ needle = <<>>
            IN  [ fileMatches |-> IF named THEN Append(acc.fileMatches,
                                                       << f.prefix, f.name >>)
                                  ELSE acc.fileMatches,
                  lineResults |-> IF content.null \/ content.s = <<>> THEN acc.lineResults
                                  ELSE matches(f, SplitLines(content.s), 1, acc.lineResults),
                  read |-> Append(acc.read, f.path) ]
        RECURSIVE searchDirs(_, _)
        searchDirs(rest, acc) ==
            IF rest = <<>> THEN acc
            ELSE searchDirs(Tail(rest), searchFile(Head(rest), acc))
    IN  searchDirs(order, [ fileMatches |-> <<>>, lineResults |-> <<>>, read |-> <<>> ])

searchMemory(fs, ds, maxDay, query, maxResults) ==
    LET needle == toLowerCase(query)
        visit(dir, prefix) ==
            LET names == Listing(fs, dir, FALSE, maxDay) IN
            [ i \in 1..Len(names) |->
                [ path |-> PathJoin(dir, << names[i] >>), prefix |-> prefix,
                  name |-> names[i] ] ]
        order == visit(MEMORY_DIR, "") \o visit(DAILY_DIR, "daily")
                 \o visit(NOTES_DIR, "notes")
        RECURSIVE matches(_, _, _, _)
        \* for (i = 0; i < lines.length && lineResults.length < maxResults; i++)
        matches(f, lines, i, found) ==
            IF i > Len(lines) \/ Len(found) >= maxResults THEN found
            ELSE matches(f, lines, i + 1,
                         IF Includes(toLowerCase(lines[i]), needle) \/ needle = <<>>
                         THEN Append(found, [ file |-> << f.prefix, f.name >>,
                                              line |-> i, text |-> TrimEnd(lines[i]) ])
                         ELSE found)
        searchFile(f, acc) ==
            LET content == readFileSafe(fs, ds, f.path)
                named == Includes(DisplayName(f.prefix, f.name), needle) \/ needle = <<>>
            IN  [ fileMatches |-> IF named THEN Append(acc.fileMatches,
                                                       << f.prefix, f.name >>)
                                  ELSE acc.fileMatches,
                  lineResults |-> IF content.null \/ content.s = <<>> THEN acc.lineResults
                                  ELSE matches(f, SplitLines(content.s), 1, acc.lineResults),
                  read |-> Append(acc.read, f.path) ]
        RECURSIVE searchDirs(_, _)
        \* if (lineResults.length >= maxResults) break, in every directory
        searchDirs(rest, acc) ==
            IF rest = <<>> \/ Len(acc.lineResults) >= maxResults THEN acc
            ELSE searchDirs(Tail(rest), searchFile(Head(rest), acc))
    IN  searchDirs(order, [ fileMatches |-> <<>>, lineResults |-> <<>>, read |-> <<>> ])

\* memory_search.execute
MemorySearch ==
    /\ \E query \in { <<>>, << "z" >>, << "M" >>, << "n" >>, << "2" >> },
          limit \in { 0, 1, 2, DefaultLimit } :
          last' = ("limit" :> limit)
                  @@ [ NoCall EXCEPT
                         !.op = "memory_search", !.text = Str(query),
                         !.returned = TRUE,
                         !.out = << searchMemory(files, ensureDirs(dirs), MaxDay,
                                                 query, limit) >> ]
    /\ dirs' = ensureDirs(dirs)
    /\ sections' = <<>> /\ memoryContext' = <<>>
    /\ UNCHANGED << files, envVars, calls, codecVars, histVars, bgVars >>

\* the memory roots searched: each file missing or with one of two
\* contents, a cache.json, and possibly an empty SOUL.md
InitSearch ==
    LET Sources == { MEMORY_FILE, dailyPath(<< todayStr(2) >>),
                     << "notes", "n.md" >>, << "notes", "MEMORY.md" >> }
        Texts == { << "m", NL, "Z", " ", NL, "z" >>, << "n", " ", "z" >> }
    IN  /\ day = 2
        /\ \E S \in SUBSET Sources : \E f \in [ S -> Texts ] :
              files \in { f @@ (<< "cache.json" >> :> << "z" >>),
                          f @@ (<< "cache.json" >> :> << "z" >>)
                            @@ (<< "SOUL.md" >> :> <<>>) }
        /\ dirs = RequiredDirs
        /\ autocommit = [ env |-> Undefined, git |-> TRUE ]
        /\ contextFiles = <<>> /\ sessionId = << "a", "b", "c" >>
        /\ calls = 0 /\ last = NoCall /\ sections = <<>> /\ memoryContext = <<>>
        /\ appended = {} /\ journal = <<>> /\ allDone = FALSE
        /\ CodecIdle
        /\ BackgroundIdle

SpecSearch == InitSearch /\ [][MemorySearch]_vars

\* a session with one more tool call to make, on a used memory root, with a
\* value of PI_AUTOCOMMIT and git working or not
InitCommit ==
    /\ day = 2
    /\ \E r \in { x \in Roots(2) : x.sessionId = LongSessionId } :
          /\ files = r.files
          /\ dirs = r.dirs
          /\ contextFiles = r.contextFiles
          /\ sessionId = r.sessionId
    /\ autocommit \in
          { [ env |-> Undefined, git |-> TRUE ],
            [ env |-> Str(<< "1" >>), git |-> TRUE ],
            [ env |-> Str(<< "t", "r", "u", "e" >>), git |-> FALSE ],
            [ env |-> Str(<< "T", "R", "U", "E" >>), git |-> TRUE ],
            [ env |-> Str(<< "y", "e", "s" >>), git |-> TRUE ] }
    /\ calls = MaxCalls - 1
    /\ last = NoCall /\ sections = <<>> /\ memoryContext = <<>>
    /\ appended = {} /\ journal = <<>> /\ allDone = FALSE
    /\ CodecIdle
    /\ BackgroundIdle

SpecCommit == InitCommit /\ [][MemoryWrite \/ Scratchpad \/ MemoryRead \/ MemorySearch]_vars

SpecPad == Init /\ [][ScratchpadAnyText]_vars

\* ------------------------------------------------------------------------
\* C23 - C24
\* ------------------------------------------------------------------------
\* the last call was memory_search; its query, limit and result
Searched == last.op = "memory_search"
Needle == toLowerCase(last.text.s)
Found == last.out[1]

\* the Markdown files of the memory root, the daily and the notes directory
SearchedFiles ==
    { p \in DOMAIN files :
        /\ \/ Len(p) = 1
           \/ Len(p) = 2 /\ << p[1] >> \in { DAILY_DIR, NOTES_DIR }
        /\ p[Len(p)] # "cache.json" }

\* the display name of a file as the pair of its prefix and its name
Shown(p) == IF Len(p) = 1 THEN << "", p[1] >> ELSE << p[1], p[2] >>

\* the place of a file in the visiting order: root, daily, notes, and the
\* sorted names within each
Place(p) ==
    ( IF Len(p) = 1 THEN 0 ELSE IF p[1] = "daily" THEN 100 ELSE 200 )
    + ( CHOOSE i \in DOMAIN SortedNames(MaxDay) : SortedNames(MaxDay)[i] = p[Len(p)] )

\* the lines of a file; an empty file has none
LinesOf(p) == IF files[p] = <<>> THEN <<>> ELSE SplitLines(files[p])

\* the matching lines of all searched files
Matching ==
    { m \in UNION { { [ path |-> p, line |-> i ] : i \in 1..Len(LinesOf(p)) } :
                    p \in SearchedFiles } :
        Includes(toLowerCase(LinesOf(m.path)[m.line]), Needle) }

\* the matching line a line result stands for
HitOf(x) ==
    CHOOSE m \in Matching : Shown(m.path) = x.file /\ m.line = x.line

\* visiting order of the matching lines
Earlier(m, n) ==
    \/ Place(m.path) < Place(n.path)
    \/ m.path = n.path /\ m.line < n.line

\* C23: searchMemory returns at most 'limit' line results, and they are the
\* first 'limit' matching lines in visiting order (root, daily, notes;
\* Markdown files in sorted name order; lines by number from 1, right
\* trimmed); it reads no file once the limit is reached.
C23_FirstMatches ==
    Searched =>
        LET res == Found.lineResults IN
        /\ Len(res) <= last.limit
        /\ \A k \in DOMAIN res :
              /\ \E m \in Matching : Shown(m.path) = res[k].file /\ m.line = res[k].line
              /\ res[k].text = TrimEnd(LinesOf(HitOf(res[k]).path)[res[k].line])
        /\ \A j, k \in DOMAIN res : j < k => Earlier(HitOf(res[j]), HitOf(res[k]))
        /\ Len(res) = Min(last.limit, Cardinality(Matching))
        /\ \A m \in Matching :
              (\A k \in DOMAIN res : HitOf(res[k]) # m)
              => \A k \in DOMAIN res : Earlier(HitOf(res[k]), m)
        /\ \A i \in DOMAIN Found.read :
              /\ Found.read[i] \in SearchedFiles
              /\ Cardinality({ m \in Matching : Place(m.path) < Place(Found.read[i]) })
                    < last.limit

\* a limit of 1 with matches in several files: only the first line is
\* returned and the later files are not read
C23_Witness ==
    /\ Searched
    /\ last.limit = 1
    /\ Cardinality({ m.path : m \in Matching }) >= 3
    /\ Len(Found.lineResults) = 1
    /\ Found.lineResults[1].line = 3
    /\ Len(Found.read) = 1

\* a trailing space is cut from the text of a match
C23_WitnessTrimmed ==
    /\ Searched
    /\ \E k \in DOMAIN Found.lineResults :
          /\ Found.lineResults[k].text = << "Z" >>
          /\ Found.lineResults[k].line = 2

\* the searched files whose display name contains the query
NamedFiles ==
    { p \in SearchedFiles : Includes(DisplayName(Shown(p)[1], Shown(p)[2]), Needle) }

\* C24: every Markdown file of the three directories whose display name
\* contains the query is in fileMatches, for every limit and however many
\* content matches come before the file.
C24_FileMatches ==
    Searched =>
        \A p \in NamedFiles :
            \E i \in DOMAIN Found.fileMatches : Found.fileMatches[i] = Shown(p)

\* C24 when the line results stay below the limit
C24_BelowLimit ==
    (Searched /\ Len(Found.lineResults) < last.limit) =>
        \A p \in NamedFiles :
            \E i \in DOMAIN Found.fileMatches : Found.fileMatches[i] = Shown(p)

\* notes/n.md is named by the query but not reported: the limit of 1 was
\* reached in MEMORY.md
C24_Missed ==
    /\ Searched
    /\ last.text.s = << "n" >>
    /\ last.limit = 1
    /\ << "notes", "n.md" >> \in NamedFiles
    /\ Len(Found.lineResults) = 1
    /\ Found.lineResults[1].file = << "", "MEMORY.md" >>
    /\ \A i \in DOMAIN Found.fileMatches : Found.fileMatches[i] # << "notes", "n.md" >>

\* ------------------------------------------------------------------------
\* C25: commits
\* ------------------------------------------------------------------------
\* PI_AUTOCOMMIT is exactly "1" or exactly "true"
CommitEnabled == autocommit.env.def /\ autocommit.env.s \in { << "1" >>, << "t", "r", "u", "e" >> }

\* the call just made is a memory_write or a scratchpad add, done, undo or
\* clear_done
IsMutation(l) ==
    \/ l.op = "memory_write"
    \/ l.op = "scratchpad" /\ l.action \in { "add", "done", "undo", "clear_done" }

\* the call returned a result that is not an error message
Succeeded(l) ==
    /\ l.returned
    /\ ~(Len(l.out) > 0 /\ l.out[1] \in { "Error:", "No matching", "Unknown action:" })

\* the file a mutating call writes
WrittenPath(l, d) ==
    IF l.op = "scratchpad" THEN SCRATCHPAD_FILE
    ELSE IF l.target = "daily" THEN dailyPath(<< todayStr(d) >>)
    ELSE IF l.target = "note" THEN PathJoin(NOTES_DIR, Basename(l.filename.s))
    ELSE MEMORY_FILE

\* the call just made, repeated from the state before it with git working
WithGitWorking(l, fs, ds, d, c, session, ac) ==
    LET ok == [ ac EXCEPT !.git = TRUE ] IN
    IF l.op = "scratchpad"
    THEN scratchpad(fs, ensureDirs(ds), d, c, session, ok, l.action, l.text)
    ELSE memoryWrite(fs, ensureDirs(ds), d, c, session, ok, l.target, l.content,
                     l.mode, l.filename)

\* C25: a tool call attempts one commit when PI_AUTOCOMMIT is exactly "1" or
\* "true" and the call is a memory_write or scratchpad mutation that
\* succeeded, and no commit otherwise (list, read, search, error results,
\* other values of PI_AUTOCOMMIT); the commit comes with the file written,
\* and whether it fails or not the files and the result are those of the same
\* call with git working
C25_Commit ==
    [][ /\ Len(last'.commits)
             = (IF CommitEnabled /\ IsMutation(last') /\ Succeeded(last')
                THEN 1 ELSE 0)
        /\ last'.commits # <<>> =>
             /\ WrittenPath(last', day) \in DOMAIN files'
             /\ files' = writeFileSync(files, WrittenPath(last', day),
                                       files'[WrittenPath(last', day)])
        /\ IsMutation(last') =>
             LET r == WithGitWorking(last', files, dirs, day, calls, sessionId,
                                     autocommit)
             IN  /\ files' = r.fs
                 /\ last'.out = r.out
                 /\ last'.threw = r.threw
                 /\ Len(last'.commits) = Len(r.commits) ]_vars

\* a scratchpad mutation whose commit failed after the file was written
C25_Witness ==
    /\ last.op = "scratchpad" /\ last.action = "add" /\ last.returned
    /\ Len(last.commits) = 1 /\ last.commits[1].failed
    /\ SCRATCHPAD_FILE \in DOMAIN files

\* a successful memory_write under PI_AUTOCOMMIT=TRUE, which commits nothing
C25_WitnessOtherValue ==
    /\ autocommit.env = Str(<< "T", "R", "U", "E" >>)
    /\ last.op = "memory_write" /\ Succeeded(last)
    /\ last.commits = <<>>

\* a done with no matching item under PI_AUTOCOMMIT=1, which commits nothing
C25_WitnessNoMatch ==
    /\ CommitEnabled
    /\ last.op = "scratchpad" /\ last.action = "done" /\ last.returned
    /\ ~Succeeded(last) /\ last.commits = <<>>

\* ------------------------------------------------------------------------
\* C26 - C27: the checklist under the scratchpad tool
\* ------------------------------------------------------------------------
\* the checklist a file system holds
Checklist(fs, ds) == parseScratchpad(OrEmpty(readFileSafe(fs, ds, SCRATCHPAD_FILE)))

\* the positions of l whose item has the other done flag than want and a
\* text that contains t, both compared in lower case
Candidates(l, want, t) ==
    { i \in DOMAIN l : /\ l[i].done # want
                       /\ Includes(toLowerCase(l[i].text), toLowerCase(t)) }

\* C26: done (undo) with a text flips the first open (done) item whose text
\* contains it without regard to case and leaves every other item as it was;
\* without such an item the files are unchanged and the result is the
\* 'No matching' message
C26_Flip ==
    [][ (last'.op = "scratchpad" /\ last'.action \in { "done", "undo" }
         /\ ~Falsy(last'.text)) =>
        LET before == Checklist(files, ensureDirs(dirs))
            after == Checklist(files', dirs')
            want == (last'.action = "done")
            hits == Candidates(before, want, last'.text.s)
        IN  /\ last'.returned
            /\ IF hits = {}
               THEN /\ files' = files
                    /\ last'.out[1] = "No matching"
                    /\ last'.commits = <<>>
               ELSE LET k == CHOOSE h \in hits : \A g \in hits : h <= g IN
                    /\ last'.out[1] = "Updated."
                    /\ Len(after) = Len(before)
                    /\ after[k] = [ before[k] EXCEPT !.done = want ]
                    /\ \A i \in DOMAIN before : i # k => after[i] = before[i] ]_vars

\* done "B" went past the done item b and closed the open item ab that
\* follows it; the first item is still open
C26_Witness ==
    /\ last.op = "scratchpad" /\ last.action = "done"
    /\ last.text = Str(<< "B" >>) /\ last.out[1] = "Updated."
    /\ LET l == Checklist(files, dirs) IN
       /\ Len(l) >= 3
       /\ ~l[1].done /\ l[2].done /\ l[3].done
       /\ l[3].text = << "a", "b" >>

\* undo "a" with no done item that contains a
C26_WitnessNoMatch ==
    /\ last.op = "scratchpad" /\ last.action = "undo"
    /\ last.text = Str(<< "a" >>) /\ last.returned
    /\ Len(last.out) > 0 /\ last.out[1] = "No matching"

\* the item add pushes: open, with the text and the stamp of the call
AddedItem(t, d, c, session) ==
    [ done |-> FALSE, text |-> t,
      meta |-> CommentOpen \o << " " >> \o nowTimestamp(d, c) \o << " ", "[" >>
               \o shortSessionId(session) \o << "]", " " >> \o CommentClose ]

\* the items of l that are not done, in order
Survivors(l) == LET NotDone(x) == ~x.done IN SelectSeq(l, NotDone)

\* what clear_done and list do to the checklist file
ClearAndList ==
    /\ (last'.op = "scratchpad" /\ last'.action = "clear_done") =>
          LET before == Checklist(files, ensureDirs(dirs))
              after == Checklist(files', dirs')
          IN  /\ last'.returned
              /\ after = Survivors(before)
              /\ last'.out[1] = "Cleared"
              /\ last'.out[3] = ToString(Len(before) - Len(Survivors(before)))
    /\ (last'.op = "scratchpad" /\ last'.action = "list") =>
          /\ last'.returned /\ files' = files /\ last'.commits = <<>>

\* what add does to the checklist file, for the texts of Texts
AddAppends(Texts) ==
    (last'.op = "scratchpad" /\ last'.action = "add" /\ last'.text \in Texts) =>
        /\ last'.returned
        /\ Checklist(files', dirs')
             = Append(Checklist(files, ensureDirs(dirs)),
                      AddedItem(last'.text.s, day, calls, sessionId))

\* C27: add appends one open item with the text and a '<!-- timestamp
\* [session] -->' meta at the end of the checklist and changes no other
\* item; clear_done removes the done items, keeps the others in order and
\* reports the number removed; list does not write
C27_Frame ==
    [][ AddAppends({ t \in { c.text : c \in PadCallsAnyText } : ~Falsy(t) }) /\ ClearAndList ]_vars

\* C27 for the texts of one line
C27_FrameOneLine ==
    [][ AddAppends({ t \in { c.text : c \in PadCallsAnyText } :
                       ~Falsy(t) /\ \A i \in DOMAIN t.s : t.s[i] # NL })
        /\ ClearAndList ]_vars

\* add with a text of two lines left a done item b at the end of the
\* checklist, and the item before it has the first line as its text
C27_SecondLineIsItem ==
    /\ last.op = "scratchpad" /\ last.action = "add" /\ last.text = TwoLineText
    /\ last.returned
    /\ LET l == Checklist(files, dirs) IN
       /\ Len(l) >= 2
       /\ l[Len(l)].done /\ l[Len(l)].text = << "b" >>
       /\ ~l[Len(l) - 1].done /\ l[Len(l) - 1].text = << "a" >>

\* clear_done removed one item of three and kept the two open ones in order
C27_WitnessCleared ==
    /\ last.op = "scratchpad" /\ last.action = "clear_done"
    /\ Len(last.out) >= 3 /\ last.out[3] = "1"
    /\ LET l == Checklist(files, dirs) IN
       /\ Len(l) = 2
       /\ l[1] = [ done |-> FALSE, text |-> << "a" >>, meta |-> MetaA ]
       /\ l[2] = [ done |-> FALSE, text |-> << "a", "b" >>, meta |-> <<>> ]

\* ------------------------------------------------------------------------
\* C28: appends within one process
\* ------------------------------------------------------------------------
\* one process on a used memory root: its session has started, the rebuild
\* timer runs and is due, and two tool calls are still to come
InitAppend ==
    /\ day = 2
    /\ \E r \in { x \in Roots(2) : x.sessionId = LongSessionId } :
          /\ files = r.files
          /\ dirs = r.dirs
          /\ contextFiles = r.contextFiles
          /\ sessionId = r.sessionId
          /\ autocommit = r.autocommit
    /\ calls = MaxCalls - 2
    /\ last = NoCall /\ sections = <<>> /\ memoryContext = <<>>
    /\ appended = {} /\ journal = <<>> /\ allDone = FALSE
    /\ CodecIdle
    /\ now = REBUILD_INTERVAL
    /\ inst = [ i \in Instances |->
                  IF i = 1
                  THEN [ InstanceLoaded EXCEPT !.rebuildTimer = TRUE,
                                               !.timerDue = REBUILD_INTERVAL,
                                               !.intervals = 1 ]
                  ELSE InstanceLoaded ]
    /\ cacheJson = [ exists |-> FALSE ]
    /\ req = [ op |-> "none" ]
    /\ race = [ i \in Instances |-> [ pc |-> "idle" ] ]
    /\ logs = << >> /\ scan = [ op |-> "none" ] /\ collected = [ op |-> "none" ]

\* the tool calls of the process and its dashboard handlers and timer
\* callback, suspended and resumed in any order
SpecAppend ==
    InitAppend /\ [][ \/ MemoryWrite
                      \/ Scratchpad
                      \/ SessionStart(1)
                      \/ SessionSwitch(1)
                      \/ TimerFire(1)
                      \/ Resume(1) ]_vars

\* the blocks occur in the text one after the other, in this order
RECURSIVE InOrder(_, _)
InOrder(text, blocks) ==
    IF blocks = <<>> THEN TRUE
    ELSE LET b == Head(blocks)
             at == { i \in 1..(Len(text) - Len(b) + 1) :
                       SubSeq(text, i, i + Len(b) - 1) = b }
         IN  /\ at # {}
             /\ LET first == CHOOSE i \in at : \A k \in at : i <= k
                IN  InOrder(SubSeq(text, first + Len(b), Len(text)), Tail(blocks))

\* the blocks appended to file p, in call order
BlocksOf(j, p) ==
    LET Of(e) == e.path = p
        es == SelectSeq(j, Of)
    IN  [ i \in 1..Len(es) |-> es[i].block ]

C28_HandlersKeepFiles ==
    [][ last' = last => files' = files ]_vars

C28_WitnessAdds ==
    /\ Len(journal) = 2
    /\ journal[1].path = SCRATCHPAD_FILE /\ journal[2].path = SCRATCHPAD_FILE
    /\ journal[1].block # journal[2].block
    /\ \E t \in inst[1].tasks : t.kind = "session_start"

\* ------------------------------------------------------------------------
\* C29: the rebuild timer
\* ------------------------------------------------------------------------
\* the session events of one process, its timer callback and the clock
SpecTimer ==
    InitDash /\ [][ \/ SessionStart(1)
                    \/ SessionSwitch(1)
                    \/ SessionShutdown(1)
                    \/ Resume(1)
                    \/ TimerFire(1)
                    \/ Tick ]_vars

\* C29: a process never has more than one interval set and not cleared,
\* and rebuildTimer refers to it exactly when there is one; a session_start
\* handler that resumes while the timer runs sets no interval, and a
\* session_switch handler never sets one
C29_OneTimer ==
    [][ \A i \in Instances :
          /\ inst'[i].intervals \in { 0, 1 }
          /\ inst'[i].rebuildTimer = (inst'[i].intervals = 1)
          /\ inst'[i].intervals > inst[i].intervals =>
                /\ ~inst[i].rebuildTimer
                /\ \E t \in inst[i].tasks \ inst'[i].tasks : t.kind = "session_start" ]_vars


\* a session_start handler ran to its end while the timer was running, and
\* there is still one interval
C29_Witness ==
    /\ inst[1].ended = [ kind |-> "session_start", hadTimer |-> TRUE ]
    /\ inst[1].rebuildTimer /\ inst[1].intervals = 1

\* a session_switch handler ran to its end in a process without a timer,
\* and there is none
C29_WitnessSwitch ==
    /\ inst[1].ended = [ kind |-> "session_switch", hadTimer |-> FALSE ]
    /\ ~inst[1].rebuildTimer /\ inst[1].intervals = 0
    /\ ~inst[1].stopped

\* ------------------------------------------------------------------------
\* C30: the dashboard widget
\* ------------------------------------------------------------------------
\* the session and agent events of one process on a root with or without an
\* open checklist item
InitWidget ==
    /\ day = 2 /\ dirs = RequiredDirs /\ contextFiles = <<>>
    /\ files \in { << >>, SCRATCHPAD_FILE :> ChecklistA }
    /\ sessionId = << "a", "b", "c" >>
    /\ autocommit = [ env |-> Undefined, git |-> TRUE ]
    /\ calls = 0 /\ last = NoCall /\ sections = <<>> /\ memoryContext = <<>>
    /\ appended = {} /\ journal = <<>> /\ allDone = FALSE
    /\ CodecIdle
    /\ now = REBUILD_INTERVAL
    /\ inst = [ i \in Instances |-> InstanceLoaded ]
    /\ cacheJson = [ exists |-> FALSE ]
    /\ req = [ op |-> "none" ]
    /\ race = [ i \in Instances |-> [ pc |-> "idle" ] ]
    /\ logs = << >> /\ scan = [ op |-> "none" ] /\ collected = [ op |-> "none" ]

SpecWidget ==
    InitWidget /\ [][ \/ SessionStart(1)
                      \/ SessionSwitch(1)
                      \/ AgentStart(1)
                      \/ Resume(1) ]_vars

\* C30: after agent_start has cleared the widget, and until the next
\* session_start or session_switch event, the widget is absent, whatever
\* showDashboard calls were suspended when agent_start ran
C30_StaysCleared ==
    \A i \in Instances : inst[i].cleared => ~inst[i].widget

\* C30 when no showDashboard call is suspended at the agent_start event
C30_ClearedWhenIdle ==
    [][ \A i \in Instances :
          /\ (inst'[i].cleared /\ ~inst[i].cleared) => ~inst'[i].widget
          /\ (inst[i].cleared /\ inst'[i].cleared /\ inst[i].tasks = {}) =>
                ~inst'[i].widget ]_vars

\* the widget is set again after agent_start cleared it, by a session_switch
\* handler that was awaiting the summary, with no session event in between
C30_SetAfterCleared ==
    /\ inst[1].cleared /\ inst[1].widget
    /\ inst[1].ended.kind = "session_switch"
    /\ inst[1].tasks = {}

\* agent_start cleared a widget that was set, and it is absent
C30_WitnessCleared ==
    /\ inst[1].cleared /\ ~inst[1].widget
    /\ inst[1].ended.kind = "session_start"
    /\ inst[1].cachedSummary # <<>>
    /\ inst[1].tasks = {}

====
